---- MODULE Spec2Model ----
(***************************************************************************)
(* XENO-Protocol/XENO: the Obsidian Vault timeline store                    *)
(* (core/vault/timeline.ts, core/vault/index.ts), the Sovereign Identity    *)
(* subsystem (lib/identity.ts, core/identity/handshake.ts,                  *)
(* core/identity/index.ts), the Autonomous Evolution engine                 *)
(* (core/evolution/index.ts, cron.ts, shadow-reflections.ts) and the vault  *)
(* cipher (lib/crypto.ts) as state machines.                                *)
(*                                                                         *)
(* Units and encodings                                                      *)
(*  - entropy scores are integers in thousandths (0..1000 for 0.0..1.0), so *)
(*    Number(x.toFixed(3)) is rounding to the nearest unit, a tie going up. *)
(*  - an optional value (T | null) is a sequence of length 0 or 1.          *)
(*  - a nonce is a pair <<typeof-tag, value>>: <<"number", n>>,             *)
(*    <<"NaN", 0>> (typeof NaN is 'number') or <<"other", 0>> (a string,    *)
(*    undefined, ...).                                                      *)
(*  - hex strings that carry key material are pairs <<tag, key id>>; an     *)
(*    Ed25519 signature is <<"ed25519", key id, signed content>>, which is  *)
(*    what deterministic signing makes it a function of.                    *)
(*  - evolution times are in minutes (MINUTE == 1); an interval timer of   *)
(*    the runtime is a record [id, callback, interval] in the set timers.   *)
(*  - a JavaScript string is a sequence of UTF-16 code units: "a" (a BMP    *)
(*    scalar), "HI" and "LO" (a high and a low surrogate).                  *)
(***************************************************************************)
EXTENDS Integers, Sequences, FiniteSets, TLC

\* ---------------------------------------------------------------- bounds
\* MAX_TIMELINE_SIZE is 1000 in timeline.ts:19; the model runs the same code
\* with the cap scaled down so that eviction is reached.
MAX_TIMELINE_SIZE == 3
\* recordInteraction calls explored per behaviour.
MaxCalls == 5
\* recordInteraction calls explored per behaviour when processes restart.
MaxStoreCalls == 3

Emotions == {"greedy", "fearful", "neutral"}
\* entropy scores (thousandths) the Brain may hand over
Scores == {125, 1000}
NullEmotion == "null"

VARIABLES
    vaultCache,     \* index.ts `vaultCache`: <<>> (null) or <<VaultData>>
    vaultFile,      \* .vault/obsidian.enc: <<>> (absent) or <<VaultData>> as last written
    vaultCalls,     \* number of recordInteraction calls that returned (history)
    vaultDir,       \* .vault exists
    vaultLast,      \* the last vault call: what its loadVault found and
                    \* returned, vaultPersisted as the call found it, and
                    \* whether it raised (history)
    vaultPersisted  \* the vault held in memory right after the last
                    \* recordInteraction whose write succeeded: <<>> or
                    \* <<VaultData>> (history)

vaultVars ==
    <<vaultCache, vaultFile, vaultCalls, vaultDir, vaultLast, vaultPersisted>>

VARIABLES
    activeKeypair,      \* index.ts `activeKeypair`: <<>> or <<SovereignKeypair>>
    identityState,      \* index.ts `identityState`
    identityFile,       \* .identity/sovereign.key: <<>> or <<IdentityFile>>
    keysGenerated,      \* key-pairs generated so far (names the next fresh key)
    nonceCounter,       \* lib/identity.ts `nonceCounter`
    lastVerifiedNonce,  \* handshake.ts `lastVerifiedNonce`
    last,               \* the last call, its arguments and what it returned
                        \* (history), until the caller has consumed it
    rvf,                \* recordVerificationFailure history: calls in a row, tripped
    acceptedLog         \* <<content, signature>> of every envelope accepted
                        \* since the watermark was last reset (history, kept
                        \* where the handshake protocol runs on its own)

idVars == <<activeKeypair, identityState, identityFile, keysGenerated,
            nonceCounter, lastVerifiedNonce, last, rvf, acceptedLog>>

VARIABLES
    now,                \* Date.now(), in units of 30 minutes
    lastHostContact,    \* evolution/index.ts `lastHostContact`
    pendingReflections, \* evolution/index.ts `pendingReflections`
    totalGenerated,     \* evolution/index.ts `totalGenerated`
    silenceCheckHandle, \* evolution/index.ts `silenceCheckHandle`: NullHandle or a handle
    cronState,          \* cron.ts `state`: intervalHandle, running, cycleCount,
                        \* lastTickAt
    tickCallback,       \* cron.ts `tickCallback`: "null" or "handleTick"
    config,             \* cron.ts `config`
    timers,             \* the interval timers the runtime holds active:
                        \* [id, callback, interval]
    deliveredLog,       \* ids returned by drains, in order of return (history)
    evictedLog,         \* ids dropped by the cap of the queue (history)
    evoLast             \* the last evolution call and what it did (history)

evoVars == <<now, lastHostContact, pendingReflections, totalGenerated,
             silenceCheckHandle, cronState, tickCallback, config, timers,
             deliveredLog, evictedLog, evoLast>>

VARIABLES
    shadowInput,        \* generateShadowReflection: the arguments of a call
    shadowOutput        \* and what it returned, <<>> before the call

shadowVars == <<shadowInput, shadowOutput>>

VARIABLES
    cipherEnv,          \* process.env as deriveKey reads it
    cipherPlaintext,    \* the string handed to encrypt
    cipherEnvelope,     \* <<>> or <<the EncryptedEnvelope to be decrypted>>,
                        \* with the one encrypt returned and the secret it
                        \* was made under (history)
    cipherIssued,       \* every envelope encrypt returned so far, with the
                        \* bytes randomBytes drew in that call (history)
    cipherResult        \* <<>> or what decrypt or verifyIntegrity did with
                        \* the envelope

cipherVars == <<cipherEnv, cipherPlaintext, cipherEnvelope, cipherIssued,
                cipherResult>>

VARIABLES
    awakeningConfig,    \* awakening/index.ts `config`
    lastDispatchAt,     \* <<>> (null) or <<time of the last successful dispatch>>
    totalDispatched,    \* awakening/index.ts `totalDispatched`
    totalFailed,        \* awakening/index.ts `totalFailed`
    eventLog,           \* awakening/index.ts `eventLog`, each event with the
                        \* time its dispatch settled and whether notifications
                        \* were enabled when it was evaluated (history)
    dispatching,        \* the events of the evaluateAndNotify calls that are
                        \* suspended at `await dispatchNotification(...)`
    eventsCreated       \* events created so far (names the next event)

awakeningVars == <<awakeningConfig, lastDispatchAt, totalDispatched, totalFailed,
                   eventLog, dispatching, eventsCreated>>

\* the variables outside the vault, the identity, the evolution engine
notVault == <<idVars, evoVars, shadowVars, cipherVars, awakeningVars>>
notIdentity == <<vaultVars, evoVars, shadowVars, cipherVars, awakeningVars>>

\* ------------------------------------------------------------ timeline.ts
Min(a, b) == IF a <= b THEN a ELSE b
Abs(x) == IF x < 0 THEN -x ELSE x

\* tl.reduce((acc, e) => acc + e.tag.entropyScore, 0)
RECURSIVE sumEntropy(_)
sumEntropy(tl) ==
    IF tl = <<>> THEN 0 ELSE tl[1].entropyScore + sumEntropy(Tail(tl))

\* Number((sum / len).toFixed(3)) in thousandths: nearest unit, tie upwards
toFixed3(sum, len) == (2 * sum + len) \div (2 * len)

\* The keys of `freq` in insertion order: Object.entries iterates the string
\* keys in the order in which the first loop created them.
RECURSIVE freqKeys(_, _)
freqKeys(tl, seen) ==
    IF tl = <<>> THEN seen
    ELSE IF \E i \in DOMAIN seen : seen[i] = tl[1].emotion
         THEN freqKeys(Tail(tl), seen)
         ELSE freqKeys(Tail(tl), Append(seen, tl[1].emotion))

\* freq[tag] after the first loop
freqCount(tl, tag) == Cardinality({i \in DOMAIN tl : tl[i].emotion = tag})

\* for (const [tag, count] of Object.entries(freq)) with a strict comparison
dominantStepLastWins(count, maxCount) == count >= maxCount
dominantStep(count, maxCount) == count > maxCount

RECURSIVE dominantScan(_, _, _, _)
dominantScan(keys, tl, maxCount, dominant) ==
    IF keys = <<>> THEN dominant
    ELSE LET count == freqCount(tl, keys[1]) IN
         IF dominantStep(count, maxCount)
         THEN dominantScan(Tail(keys), tl, count, keys[1])
         ELSE dominantScan(Tail(keys), tl, maxCount, dominant)

recalculateStats(tl) ==
    IF Len(tl) = 0
    THEN [totalInteractions |-> 0, dominantEmotion |-> NullEmotion, averageEntropy |-> 0]
    ELSE [totalInteractions |-> Len(tl),
          dominantEmotion   |-> dominantScan(freqKeys(tl, <<>>), tl, 0, NullEmotion),
          averageEntropy    |-> toFixed3(sumEntropy(tl), Len(tl))]

\* vault.timeline.slice(-MAX_TIMELINE_SIZE)
sliceLast(tl, n) == SubSeq(tl, Len(tl) - n + 1, Len(tl))

\* mutants of appendToTimeline: the stats recomputed before the eviction;
\* the eviction keeping the head of the list
appendToTimelineStale(vault, entry) ==
    LET pushed == Append(vault.timeline, entry)
        kept   == IF Len(pushed) > MAX_TIMELINE_SIZE
                  THEN sliceLast(pushed, MAX_TIMELINE_SIZE) ELSE pushed
    IN  [timeline |-> kept, stats |-> recalculateStats(pushed)]

appendToTimelineKeepHead(vault, entry) ==
    LET pushed == Append(vault.timeline, entry)
        kept   == IF Len(pushed) > MAX_TIMELINE_SIZE
                  THEN SubSeq(pushed, 1, MAX_TIMELINE_SIZE) ELSE pushed
    IN  [timeline |-> kept, stats |-> recalculateStats(kept)]

appendToTimeline(vault, entry) ==
    LET pushed == Append(vault.timeline, entry)
        kept   == IF Len(pushed) > MAX_TIMELINE_SIZE
                  THEN sliceLast(pushed, MAX_TIMELINE_SIZE) ELSE pushed
    IN  [timeline |-> kept, stats |-> recalculateStats(kept)]

createEmptyVault ==
    [timeline |-> <<>>,
     stats |-> [totalInteractions |-> 0, dominantEmotion |-> NullEmotion,
                averageEntropy |-> 0]]

\* createTimelineEntry: `seq` stands for id/timestamp (the order of creation);
\* the tag carries detectEmotion's primary emotion and the Brain's score.
createTimelineEntry(seq, emotion, score) ==
    [seq |-> seq, emotion |-> emotion, entropyScore |-> score]

\* ------------------------------------------------------- vault/index.ts
\* a vault file that cannot be read, parsed or decrypted
CorruptVaultFile == [corrupt |-> TRUE]
isCorruptVaultFile(file) == "corrupt" \in DOMAIN file

\* mutant: the fallback vault carrying a default emotion instead of null
readVaultFileDefaultEmotion(file) ==
    IF file = <<>> \/ isCorruptVaultFile(file[1])
    THEN [createEmptyVault EXCEPT !.stats.dominantEmotion = "neutral"]
    ELSE file[1]

\* loadVault past the cache: a fresh empty vault when the file is absent
\* (existsSync false) or when reading, parsing or decrypting it throws
readVaultFile(file) ==
    IF file = <<>> \/ isCorruptVaultFile(file[1]) THEN createEmptyVault
    ELSE file[1]

\* loadVault: the cache if present; else what the file gives
loadVault ==
    IF vaultCache # <<>> THEN vaultCache[1] ELSE readVaultFile(vaultFile)

\* what loadVault finds: the cache, no file, an unusable file, a usable file
loadSource ==
    IF vaultCache # <<>> THEN "cache"
    ELSE IF vaultFile = <<>> THEN "absent"
    ELSE IF isCorruptVaultFile(vaultFile[1]) THEN "corrupt" ELSE "file"

\* ensureVaultDir throws when .vault is missing and mkdirSync fails
ensureVaultDirThrows(mkdirOk) == ~vaultDir /\ ~mkdirOk

\* ensureVaultDir is called by loadVault only past the cache test
loadVaultThrows(mkdirOk) == vaultCache = <<>> /\ ensureVaultDirThrows(mkdirOk)

\* what the try block of flushVault can come to: the file written in full;
\* a throw before the file is touched (JSON.stringify, encrypt, or the open
\* inside writeFileSync); a throw after writeFileSync has opened the file,
\* which truncates it, and before all bytes are in it
WriteOutcomes == {"written", "refused", "torn"}

\* flushVault: JSON.stringify, encrypt, writeFileSync inside try/catch. The
\* file holds the vault as JSON: every value of VaultData is a string, a
\* finite number, null, an array or a plain object, which JSON.parse gives
\* back as written. writeFileSync is not atomic (no temporary file, no
\* rename): a write that fails half-way leaves a truncated file.
flushVault(vault, write) ==
    CASE write = "written" -> <<vault>>
      [] write = "refused" -> vaultFile
      [] write = "torn"    -> <<CorruptVaultFile>>

\* what a call that loaded the vault leaves in vaultLast; a load past the
\* cache also leaves what it returned and vaultPersisted as it found it
loadRecord(op, vault) ==
    IF loadSource = "cache"
    THEN [op |-> op, raised |-> FALSE, source |-> loadSource,
          lenBefore |-> Len(vault.timeline)]
    ELSE [op |-> op, raised |-> FALSE, source |-> loadSource,
          lenBefore |-> Len(vault.timeline),
          loaded |-> vault, persisted |-> vaultPersisted]

\* recordInteraction: loadVault, extractEmotionalTag, createTimelineEntry,
\* appendToTimeline, flushVault (whose write may fail and is then only
\* logged). ensureVaultDir runs outside the try blocks of loadVault and
\* flushVault, so a failing mkdirSync propagates to the caller.
RecordInteraction(emotion, score, write, mkdirOk) ==
    /\ vaultCalls < MaxCalls
    /\ IF loadVaultThrows(mkdirOk)
       THEN /\ vaultLast' = [op |-> "recordInteraction", raised |-> TRUE,
                             source |-> loadSource, lenBefore |-> 0]
            /\ UNCHANGED <<vaultCache, vaultFile, vaultCalls, vaultDir,
                           vaultPersisted>>
       ELSE LET vault == loadVault
                entry == createTimelineEntry(vaultCalls + 1, emotion, score)
                next  == appendToTimeline(vault, entry)
            IN  /\ vaultCache' = <<next>>
                /\ vaultFile' = flushVault(next, write)
                /\ vaultPersisted' =
                       IF write = "written" THEN <<next>> ELSE vaultPersisted
                /\ vaultCalls' = vaultCalls + 1
                /\ vaultDir' = TRUE
                /\ vaultLast' = loadRecord("recordInteraction", vault)
    /\ UNCHANGED notVault

\* getVaultStats / getInteractionCount / getVaultHistorySummary: loadVault
\* and a read of the loaded vault
ReadVault(mkdirOk) ==
    /\ IF loadVaultThrows(mkdirOk)
       THEN /\ vaultLast' = [op |-> "read", raised |-> TRUE,
                             source |-> loadSource, lenBefore |-> 0]
            /\ UNCHANGED <<vaultCache, vaultDir>>
       ELSE /\ vaultCache' = <<loadVault>>
            /\ vaultDir' = TRUE
            /\ vaultLast' = loadRecord("read", loadVault)
    /\ UNCHANGED <<vaultFile, vaultCalls, vaultPersisted>>
    /\ UNCHANGED notVault

\* the process ends and a new one starts: module state is back to its
\* initial value, the files stay
VaultRestart ==
    /\ vaultCache # <<>>
    /\ vaultCache' = <<>>
    /\ vaultLast' = [op |-> "none"]
    /\ UNCHANGED <<vaultFile, vaultCalls, vaultDir, vaultPersisted>>
    /\ UNCHANGED notVault

\* the first process start: no vault file, no vault directory
VaultInit ==
    /\ vaultCache = <<>>
    /\ vaultFile = <<>>
    /\ vaultDir = FALSE
    /\ vaultCalls = 0
    /\ vaultLast = [op |-> "none"]
    /\ vaultPersisted = <<>>

\* a vault file left by an earlier process
StoredVault ==
    appendToTimeline(createEmptyVault, createTimelineEntry(0, "greedy", 125))

\* a process start with no vault file, an unusable one, or a usable one
StoreInit ==
    /\ vaultCache = <<>>
    /\ vaultFile \in {<<>>, <<CorruptVaultFile>>, <<StoredVault>>}
    /\ vaultDir \in (IF vaultFile = <<>> THEN BOOLEAN ELSE {TRUE})
    /\ vaultCalls = 0
    /\ vaultLast = [op |-> "none"]
    /\ vaultPersisted = (IF vaultFile = <<StoredVault>> THEN vaultFile ELSE <<>>)


\* ============================================================= identity
\* key-pairs generateKeypair may produce per behaviour
MaxKeys == 2
\* nonces issued per behaviour (signMessage's ++nonceCounter)
MaxNonce == 2
\* verification failures recorded per behaviour
MaxFailures == 5
\* boots of an existing identity file per behaviour
MaxBoots == 3

\* the key-pairs envelopes on the wire may name: this node's and a foreign one
Signers == {1, 2}
\* the contents that get signed, and all contents an envelope may carry
SignedContents == {"", "a"}
Contents == SignedContents \cup {"b"}
\* stands for any content that is not a string (undefined, a number, ...)
NotAString == "<not-a-string>"

EmptyHex == <<"", 0>>
GarbageHex == <<"garbage", 0>>
Pub(k) == <<"spki", k>>
Priv(k) == <<"pkcs8", k>>
RestrictedFp == <<"RESTRICTED", 0>>
EmptySig == <<"", 0, "">>
GarbageSig == <<"garbage", 0, "">>

Num(n) == <<"number", n>>
NaN == <<"NaN", 0>>
NotANumber == <<"other", 0>>

\* typeof x === 'number'
typeofNumber(x) == x[1] \in {"number", "NaN"}
\* x <= y on JavaScript numbers: false as soon as one side is NaN
numLeq(x, y) == x[1] = "number" /\ y[1] = "number" /\ x[2] <= y[2]


\* --------------------------------------------------------- lib/identity.ts
\* createHash('sha256').update(publicKeyHex).digest('hex').slice(0, 16)
computeFingerprint(publicKeyHex) ==
    CASE publicKeyHex[1] = "spki"    -> <<"fp", publicKeyHex[2]>>
      [] publicKeyHex[1] = "garbage" -> <<"fp-garbage", 0>>
      [] OTHER                       -> <<"fp-empty", 0>>

\* generateKeypair: a fresh Ed25519 pair and the fingerprint of its public key
generateKeypair(k) ==
    [publicKey |-> Pub(k), privateKey |-> Priv(k),
     fingerprint |-> computeFingerprint(Pub(k))]

\* sign(null, content, privateKey): Ed25519 is deterministic
ed25519Sign(content, privateKey) == <<"ed25519", privateKey[2], content>>
\* verify(null, content, publicKey, signature)
ed25519Verify(content, publicKey, signature) ==
    signature = <<"ed25519", publicKey[2], content>>

\* mutant: the nonce not taken from the counter
signMessageFixedNonce(content, keypair, counter) ==
    [content |-> content, signature |-> ed25519Sign(content, keypair.privateKey),
     signerPublicKey |-> keypair.publicKey, fingerprint |-> keypair.fingerprint,
     nonce |-> Num(1)]

\* signMessage(content, keypair) with nonceCounter = counter before the call
signMessage(content, keypair, counter) ==
    [content         |-> content,
     signature       |-> ed25519Sign(content, keypair.privateKey),
     signerPublicKey |-> keypair.publicKey,
     fingerprint     |-> keypair.fingerprint,
     nonce           |-> Num(counter + 1)]

\* !envelope.signature || !envelope.signerPublicKey || !envelope.content
incompleteEnvelope(envelope) ==
    \/ envelope.signature = EmptySig
    \/ envelope.signerPublicKey = EmptyHex
    \/ envelope.content = ""

\* mutant: the catch block returning the bare error message as the reason
verifySignatureBareMessage(envelope) ==
    LET base == [publicKey |-> envelope.signerPublicKey,
                 fingerprint |-> envelope.fingerprint]
    IN  IF incompleteEnvelope(envelope)
        THEN [valid |-> FALSE, publicKey |-> base.publicKey,
              fingerprint |-> base.fingerprint, reason |-> "INCOMPLETE_ENVELOPE"]
        ELSE IF envelope.signerPublicKey[1] # "spki"
        THEN [valid |-> FALSE, publicKey |-> base.publicKey,
              fingerprint |-> base.fingerprint, reason |-> "error:0D0680A8:asn1"]
        ELSE IF ~ed25519Verify(envelope.content, envelope.signerPublicKey,
                               envelope.signature)
        THEN [valid |-> FALSE, publicKey |-> base.publicKey,
              fingerprint |-> base.fingerprint, reason |-> "SIGNATURE_MISMATCH"]
        ELSE [valid |-> TRUE, publicKey |-> base.publicKey,
              fingerprint |-> base.fingerprint]

\* mutant: every envelope taken as signed
verifySignatureTrusting(envelope) ==
    [valid |-> TRUE, publicKey |-> envelope.signerPublicKey,
     fingerprint |-> envelope.fingerprint]

verifySignature(envelope) ==
    LET base == [publicKey |-> envelope.signerPublicKey,
                 fingerprint |-> envelope.fingerprint]
    IN  IF incompleteEnvelope(envelope)
        THEN [valid |-> FALSE, publicKey |-> base.publicKey,
              fingerprint |-> base.fingerprint, reason |-> "INCOMPLETE_ENVELOPE"]
        ELSE IF envelope.signerPublicKey[1] # "spki"
        THEN \* the key does not parse as DER: verify() throws, caught
             [valid |-> FALSE, publicKey |-> base.publicKey,
              fingerprint |-> base.fingerprint, reason |-> "VERIFICATION_ERROR"]
        ELSE IF ~ed25519Verify(envelope.content, envelope.signerPublicKey,
                               envelope.signature)
        THEN [valid |-> FALSE, publicKey |-> base.publicKey,
              fingerprint |-> base.fingerprint, reason |-> "SIGNATURE_MISMATCH"]
        ELSE [valid |-> TRUE, publicKey |-> base.publicKey,
              fingerprint |-> base.fingerprint]

\* ------------------------------------------------------------ handshake.ts
NullEnvelope == [null |-> TRUE]
isNull(envelope) == "null" \in DOMAIN envelope

\* !envelope || typeof envelope.content !== 'string'
structuralFailure(envelope) ==
    isNull(envelope) \/ envelope.content = NotAString

\* expectedFingerprint && envelope.fingerprint !== expectedFingerprint
fingerprintMismatch(envelope, expected) ==
    expected # <<>> /\ envelope.fingerprint # expected[1]

\* mutant: the replay test with a strict comparison
replayDetectedStrict(envelope, watermark) ==
    /\ typeofNumber(envelope.nonce)
    /\ numLeq(envelope.nonce, watermark) /\ envelope.nonce # watermark

\* typeof envelope.nonce === 'number' && envelope.nonce <= lastVerifiedNonce
replayDetected(envelope, watermark) ==
    typeofNumber(envelope.nonce) /\ numLeq(envelope.nonce, watermark)

\* mutant: the replay test made before the fingerprint test
verifyResultReplayFirst(envelope, expected, watermark) ==
    IF structuralFailure(envelope)
    THEN [valid |-> FALSE, publicKey |-> EmptyHex, fingerprint |-> EmptyHex,
          reason |-> "STRUCTURAL_FAILURE"]
    ELSE IF replayDetected(envelope, watermark)
    THEN [valid |-> FALSE, publicKey |-> envelope.signerPublicKey,
          fingerprint |-> envelope.fingerprint, reason |-> "REPLAY_DETECTED"]
    ELSE IF fingerprintMismatch(envelope, expected)
    THEN [valid |-> FALSE, publicKey |-> envelope.signerPublicKey,
          fingerprint |-> envelope.fingerprint, reason |-> "FINGERPRINT_MISMATCH"]
    ELSE verifySignature(envelope)

\* the VerificationResult verifyNarrativeEnvelope returns
verifyResult(envelope, expected, watermark) ==
    IF structuralFailure(envelope)
    THEN [valid |-> FALSE, publicKey |-> EmptyHex, fingerprint |-> EmptyHex,
          reason |-> "STRUCTURAL_FAILURE"]
    ELSE IF fingerprintMismatch(envelope, expected)
    THEN [valid |-> FALSE, publicKey |-> envelope.signerPublicKey,
          fingerprint |-> envelope.fingerprint, reason |-> "FINGERPRINT_MISMATCH"]
    ELSE IF replayDetected(envelope, watermark)
    THEN [valid |-> FALSE, publicKey |-> envelope.signerPublicKey,
          fingerprint |-> envelope.fingerprint, reason |-> "REPLAY_DETECTED"]
    ELSE verifySignature(envelope)

\* mutant: the watermark advanced whatever the signature check said
nextWatermarkAlways(envelope, result, watermark) ==
    IF typeofNumber(envelope.nonce) THEN envelope.nonce ELSE watermark

\* if (result.valid && typeof envelope.nonce === 'number') lastVerifiedNonce = envelope.nonce
nextWatermark(envelope, result, watermark) ==
    IF result.valid /\ typeofNumber(envelope.nonce) THEN envelope.nonce
    ELSE watermark

\* none of the three early returns is taken
reachesSignatureCheck(envelope, expected, watermark) ==
    /\ ~structuralFailure(envelope)
    /\ ~fingerprintMismatch(envelope, expected)
    /\ ~replayDetected(envelope, watermark)

\* mutant: the restricted envelope without the fingerprint marker
createRestrictedEnvelopeNoMarker(content) ==
    [content |-> content, signature |-> EmptySig, signerPublicKey |-> EmptyHex,
     fingerprint |-> EmptyHex, nonce |-> Num(0)]

createRestrictedEnvelope(content) ==
    [content |-> content, signature |-> EmptySig, signerPublicKey |-> EmptyHex,
     fingerprint |-> RestrictedFp, nonce |-> Num(0)]

isRestrictedEnvelope(envelope) ==
    envelope.fingerprint = RestrictedFp /\ envelope.signature = EmptySig

\* rvf history: any call other than recordVerificationFailure ends the run
rvfBroken == [rvf EXCEPT !.streak = 0]

\* the log of accepted messages after verifyNarrativeEnvelope(envelope,
\* expected)
acceptedAfter(envelope, expected) ==
    IF verifyResult(envelope, expected, lastVerifiedNonce).valid
    THEN acceptedLog \cup {<<envelope.content, envelope.signature>>}
    ELSE acceptedLog

\* verifyNarrativeEnvelope(envelope, expected); the result of the previous
\* call has been consumed
verifyNarrativeEnvelope(envelope, expected) ==
    /\ UNCHANGED notIdentity
    /\ last.op = "none"
    /\ LET result == verifyResult(envelope, expected, lastVerifiedNonce) IN
       /\ lastVerifiedNonce' =
             IF reachesSignatureCheck(envelope, expected, lastVerifiedNonce)
             THEN nextWatermark(envelope, result, lastVerifiedNonce)
             ELSE lastVerifiedNonce
       /\ last' = [op |-> "verify", envelope |-> envelope, expected |-> expected,
                   before |-> lastVerifiedNonce, result |-> result,
                   replayed |-> /\ ~structuralFailure(envelope)
                                /\ <<envelope.content, envelope.signature>>
                                       \in acceptedLog]
    /\ rvf' = rvfBroken
    /\ UNCHANGED <<activeKeypair, identityState, identityFile, keysGenerated,
                   nonceCounter>>

\* the caller is done with what the last call returned
ResultConsumed ==
    /\ UNCHANGED notIdentity
    /\ last.op # "none"
    /\ last' = [op |-> "none"]
    /\ UNCHANGED <<activeKeypair, identityState, identityFile, keysGenerated,
                   nonceCounter, lastVerifiedNonce, rvf, acceptedLog>>

\* signNarrativeOutput(content, keypair) called with a key-pair of the caller
signNarrativeOutput(content, k) ==
    /\ UNCHANGED notIdentity
    /\ nonceCounter < MaxNonce
    /\ nonceCounter' = nonceCounter + 1
    /\ last' = [op |-> "signNarrativeOutput",
                envelope |-> signMessage(content, generateKeypair(k), nonceCounter)]
    /\ rvf' = rvfBroken
    /\ UNCHANGED <<activeKeypair, identityState, identityFile, keysGenerated,
                   lastVerifiedNonce, acceptedLog>>

\* ------------------------------------------------------ identity/index.ts
\* consecutive failures after which recordVerificationFailure degrades
FailureThreshold == 3

enterRestrictedMode(state) ==
    [mode |-> "RESTRICTED", initialized |-> FALSE, fingerprint |-> <<>>,
     messagesSigned |-> state.messagesSigned,
     verificationFailures |-> state.verificationFailures + 1,
     lastHandshake |-> FALSE]

sovereignState(keypair) ==
    [mode |-> "SOVEREIGN", initialized |-> TRUE,
     fingerprint |-> <<keypair.fingerprint>>,
     messagesSigned |-> 0, verificationFailures |-> 0, lastHandshake |-> TRUE]

\* saveIdentityFile: a failed write is logged and the file stays as it was
saveIdentityFile(file, saveOk) == IF saveOk THEN <<file>> ELSE identityFile

\* an identity file that cannot be read, parsed or decrypted
CorruptIdentityFile == [corrupt |-> TRUE]
isCorruptIdentityFile(file) == "corrupt" \in DOMAIN file

\* loadIdentityFile: null when the file is absent or when reading, parsing
\* or decrypting it throws
loadIdentityFile(file) ==
    IF file = <<>> \/ isCorruptIdentityFile(file[1]) THEN <<>> ELSE file

\* mutant: the stored fingerprint taken on trust
fingerprintCorruptedIgnored(keypair) == FALSE

\* expectedFp !== keypair.fingerprint
fingerprintCorrupted(keypair) ==
    computeFingerprint(keypair.publicKey) # keypair.fingerprint

\* existingFile.hostBinding.bootCount++ throws on a file that decrypted to
\* JSON without a hostBinding; activeKeypair is assigned by then
activationThrows(existingFile) == "noHostBinding" \in DOMAIN existingFile

\* mutant: the key-pair assigned before the throw stays
keypairAfterActivationFailureKept(keypair) == <<keypair>>
\* the catch of the activation: enterRestrictedMode clears activeKeypair
keypairAfterActivationFailure(keypair) == <<>>

\* what a call of initializeIdentity leaves in the history: who called, whether
\* a key-pair was generated, and the watermark, file and mode it found
initializeIdentityRecord(caller, generated) ==
    [op |-> "initializeIdentity", caller |-> caller, generated |-> generated,
     before |-> lastVerifiedNonce, fileBefore |-> identityFile,
     modeBefore |-> identityState.mode,
     failuresBefore |-> identityState.verificationFailures]

\* initializeIdentity, the branch that found an identity file
InitializeExistingBy(caller, saveOk) ==
    /\ UNCHANGED notIdentity
    /\ loadIdentityFile(identityFile) # <<>>
    /\ LET existingFile == identityFile[1]
           keypair      == existingFile.keypair
       IN  IF fingerprintCorrupted(keypair)
           THEN /\ identityState.verificationFailures < MaxFailures
                /\ activeKeypair' = <<>>
                /\ identityState' = enterRestrictedMode(identityState)
                /\ UNCHANGED identityFile
           ELSE IF activationThrows(existingFile)
           THEN /\ identityState.verificationFailures < MaxFailures
                /\ activeKeypair' = keypairAfterActivationFailure(keypair)
                /\ identityState' = enterRestrictedMode(identityState)
                /\ UNCHANGED identityFile
           ELSE /\ existingFile.bootCount < MaxBoots
                /\ activeKeypair' = <<keypair>>
                /\ identityFile' = saveIdentityFile(
                       [existingFile EXCEPT !.bootCount = @ + 1], saveOk)
                /\ identityState' = sovereignState(keypair)
    /\ last' = initializeIdentityRecord(caller, FALSE)
    /\ rvf' = [streak |-> 0, tripped |-> FALSE]
    /\ UNCHANGED <<keysGenerated, nonceCounter, lastVerifiedNonce, acceptedLog>>

\* initializeIdentity, first boot: no identity file could be loaded
InitializeFirstBootBy(caller, generateOk, saveOk) ==
    /\ UNCHANGED notIdentity
    /\ loadIdentityFile(identityFile) = <<>>
    /\ IF generateOk
       THEN /\ keysGenerated < MaxKeys
            /\ LET keypair == generateKeypair(keysGenerated + 1) IN
               /\ identityFile' = saveIdentityFile(
                      [keypair |-> keypair, bootCount |-> 1], saveOk)
               /\ activeKeypair' = <<keypair>>
               /\ identityState' = sovereignState(keypair)
            /\ keysGenerated' = keysGenerated + 1
            /\ lastVerifiedNonce' = Num(0)
            /\ acceptedLog' = {}
       ELSE /\ identityState.verificationFailures < MaxFailures
            /\ activeKeypair' = <<>>
            /\ identityState' = enterRestrictedMode(identityState)
            /\ UNCHANGED <<identityFile, keysGenerated, lastVerifiedNonce,
                           acceptedLog>>
    /\ last' = initializeIdentityRecord(caller, generateOk)
    /\ rvf' = [streak |-> 0, tripped |-> FALSE]
    /\ UNCHANGED nonceCounter

\* initializeIdentity called at the interaction boundary (module load of the
\* chat route, CLI start)
InitializeExisting(saveOk) == InitializeExistingBy("boundary", saveOk)
InitializeFirstBoot(generateOk, saveOk) ==
    InitializeFirstBootBy("boundary", generateOk, saveOk)

\* generateCertificateData: calls initializeIdentity, then reads the file for
\* the certificate; reached from the resonance tick through
\* evaluateMilestones and appendMedalOfResonance
GenerateCertificateData(generateOk, saveOk) ==
    \/ InitializeExistingBy("certificate", saveOk)
    \/ InitializeFirstBootBy("certificate", generateOk, saveOk)

\* mutant: the threshold test one too high
failuresReachThresholdLate(failures) == failures > FailureThreshold

\* identityState.verificationFailures >= 3
failuresReachThreshold(failures) == failures >= FailureThreshold

\* the state recordVerificationFailure leaves behind
afterVerificationFailure(state) ==
    LET counted == [state EXCEPT !.verificationFailures = @ + 1] IN
    IF failuresReachThreshold(counted.verificationFailures)
    THEN enterRestrictedMode(counted) ELSE counted

keypairAfterVerificationFailure(state) ==
    IF failuresReachThreshold(state.verificationFailures + 1)
    THEN <<>> ELSE activeKeypair

\* a run of recordVerificationFailure calls that started in SOVEREIGN mode
\* with no recorded failure; tripped once the run reaches the threshold
rvfCounted ==
    LET streak == IF rvf.streak > 0 THEN Min(rvf.streak + 1, FailureThreshold)
                  ELSE IF identityState.mode = "SOVEREIGN"
                          /\ identityState.verificationFailures = 0
                       THEN 1 ELSE 0
    IN  [streak |-> streak, tripped |-> rvf.tripped \/ streak >= FailureThreshold]

RecordVerificationFailure ==
    /\ UNCHANGED notIdentity
    /\ identityState.verificationFailures < MaxFailures
    /\ identityState' = afterVerificationFailure(identityState)
    /\ activeKeypair' = keypairAfterVerificationFailure(identityState)
    /\ last' = [op |-> "recordVerificationFailure"]
    /\ rvf' = rvfCounted
    /\ UNCHANGED <<identityFile, keysGenerated, nonceCounter, lastVerifiedNonce,
                   acceptedLog>>

\* sign() throws on a private key that is not a PKCS#8 Ed25519 key
signThrows(keypair) == keypair.privateKey[1] # "pkcs8"

\* what a call of signResponse leaves in the history
signResponseRecord(content, envelope, threw) ==
    [op |-> "signResponse", content |-> content, envelope |-> envelope,
     threw |-> threw,
     restrictedBefore |->
         (identityState.mode = "RESTRICTED" \/ activeKeypair = <<>>)]

SignResponse(content) ==
    /\ UNCHANGED notIdentity
    /\ IF identityState.mode = "RESTRICTED" \/ activeKeypair = <<>>
       THEN /\ last' = signResponseRecord(content,
                          createRestrictedEnvelope("[RESTRICTED] " \o content), FALSE)
            /\ UNCHANGED <<activeKeypair, identityState, nonceCounter>>
       ELSE IF signThrows(activeKeypair[1])
       THEN /\ identityState.verificationFailures < MaxFailures
            /\ identityState' = afterVerificationFailure(identityState)
            /\ activeKeypair' = keypairAfterVerificationFailure(identityState)
            /\ last' = signResponseRecord(content,
                          createRestrictedEnvelope("[RESTRICTED] " \o content), TRUE)
            /\ UNCHANGED nonceCounter
       ELSE /\ nonceCounter < MaxNonce
            /\ nonceCounter' = nonceCounter + 1
            /\ identityState' = [identityState EXCEPT !.messagesSigned = @ + 1,
                                                      !.lastHandshake = TRUE]
            /\ last' = signResponseRecord(content,
                          signMessage(content, activeKeypair[1], nonceCounter), FALSE)
            /\ UNCHANGED activeKeypair
    /\ rvf' = rvfBroken
    /\ UNCHANGED <<identityFile, keysGenerated, lastVerifiedNonce, acceptedLog>>

\* ------------------------------------------------------------- envelopes
Nonces == {Num(n) : n \in 0..MaxNonce} \cup {NaN, NotANumber}
Signatures ==
    {EmptySig, GarbageSig} \cup
    {ed25519Sign(c, Priv(k)) : c \in SignedContents, k \in Signers}
PublicKeys == {EmptyHex, GarbageHex} \cup {Pub(k) : k \in Signers}
Fingerprints == {RestrictedFp} \cup {computeFingerprint(Pub(k)) : k \in Signers}

\* every envelope a caller may hand to verifyNarrativeEnvelope
Envelopes ==
    {NullEnvelope} \cup
    [content : Contents \cup {NotAString}, signature : Signatures,
     signerPublicKey : PublicKeys, fingerprint : Fingerprints, nonce : Nonces]
ExpectedFingerprints ==
    {<<>>, <<RestrictedFp>>} \cup {<<computeFingerprint(Pub(k))>> : k \in Signers}

\* envelopes of this node's own key-pairs as they come back over the wire:
\* signed over "a", the content and the (unsigned) nonce field possibly altered
IssuedEnvelopes ==
    {[signMessage("a", generateKeypair(k), 0) EXCEPT !.content = c, !.nonce = n] :
        k \in 1..keysGenerated, c \in {"a", "b"}, n \in Nonces}

IdentityInit ==
    /\ activeKeypair = <<>>
    /\ identityState = [mode |-> "RESTRICTED", initialized |-> FALSE,
                        fingerprint |-> <<>>, messagesSigned |-> 0,
                        verificationFailures |-> 0, lastHandshake |-> FALSE]
    /\ identityFile = <<>>
    /\ keysGenerated = 0
    /\ nonceCounter = 0
    /\ lastVerifiedNonce = Num(0)
    /\ last = [op |-> "none"]
    /\ rvf = [streak |-> 0, tripped |-> FALSE]
    /\ acceptedLog = {}

\* identity files a process may find at start: none, an unusable one, one
\* written by an earlier process, one whose stored fingerprint does not match
\* its public key, one whose private key is not a PKCS#8 Ed25519 key, one
\* that holds a key-pair and no hostBinding
StoredIdentityFile == [keypair |-> generateKeypair(1), bootCount |-> 1]
UnboundIdentityFile ==
    [keypair |-> generateKeypair(1), bootCount |-> 0, noHostBinding |-> TRUE]
MismatchedIdentityFile ==
    [StoredIdentityFile EXCEPT !.keypair.fingerprint = computeFingerprint(Pub(2))]
UnusableKeyIdentityFile ==
    [StoredIdentityFile EXCEPT !.keypair.privateKey = GarbageHex]

LifecycleInit ==
    /\ activeKeypair = <<>>
    /\ identityState = [mode |-> "RESTRICTED", initialized |-> FALSE,
                        fingerprint |-> <<>>, messagesSigned |-> 0,
                        verificationFailures |-> 0, lastHandshake |-> FALSE]
    /\ identityFile \in {<<>>, <<CorruptIdentityFile>>, <<StoredIdentityFile>>,
                         <<MismatchedIdentityFile>>, <<UnusableKeyIdentityFile>>,
                         <<UnboundIdentityFile>>}
    /\ keysGenerated = (IF loadIdentityFile(identityFile) = <<>> THEN 0 ELSE 1)
    /\ nonceCounter = 0
    /\ lastVerifiedNonce = Num(0)
    /\ last = [op |-> "none"]
    /\ rvf = [streak |-> 0, tripped |-> FALSE]
    /\ acceptedLog = {}

\* verifyNarrativeEnvelope on any envelope / on one of this node's envelopes
VerifyAnyEnvelope ==
    /\ last.op = "none"
    /\ \E envelope \in Envelopes, expected \in ExpectedFingerprints :
           /\ verifyNarrativeEnvelope(envelope, expected)
           /\ acceptedLog' = acceptedAfter(envelope, expected)

VerifyIssuedEnvelope ==
    /\ last.op = "none"
    /\ \E envelope \in IssuedEnvelopes,
          expected \in {<<>>, identityState.fingerprint} :
           /\ verifyNarrativeEnvelope(envelope, expected)
           /\ UNCHANGED acceptedLog

HandshakeNext ==
    \/ \E content \in SignedContents, k \in Signers : signNarrativeOutput(content, k)
    \/ VerifyAnyEnvelope
    \/ ResultConsumed

IdentityNext ==
    \/ \E saveOk \in BOOLEAN : InitializeExisting(saveOk)
    \/ \E generateOk \in BOOLEAN, saveOk \in BOOLEAN :
           InitializeFirstBoot(generateOk, saveOk)
    \/ RecordVerificationFailure
    \/ \E content \in SignedContents : SignResponse(content)
    \/ VerifyIssuedEnvelope
    \/ ResultConsumed

\* the identity controller from any identity file, with the certificate
\* generation that the resonance tick and the CLI run in the background
LifecycleNext ==
    \/ IdentityNext
    \/ \E generateOk \in BOOLEAN, saveOk \in BOOLEAN :
           GenerateCertificateData(generateOk, saveOk)

\* ============================================================ evolution
\* Time is counted in minutes (60_000 ms).
MINUTE == 1
HALF_HOUR == 30 * MINUTE
HOUR == 60 * MINUTE

\* MAX_PENDING is 20 and MAX_DELIVERY_BATCH is 5 in evolution/index.ts:36-37;
\* the model runs the same code with both scaled down so that the cap and a
\* partly filled batch are reached.
MAX_PENDING == 3
MAX_DELIVERY_BATCH == 2
\* reflections generated per behaviour
MaxGenerated == 4
\* the cycle counter a tick may start from
MaxCycles == 3
\* interval handles the runtime can have active at once
MaxHandles == 3

NullHandle == 0
HandleIds == 1..MaxHandles

\* ------------------------------------------- evolution/shadow-reflections.ts
\* the keys of PATTERN_REFLECTIONS
PatternEmotions ==
    {"greedy", "fearful", "neutral", "overconfident", "desperate",
     "disciplined", "anxious", "euphoric"}

\* the length of each template pool
poolSize(pool) ==
    CASE pool = "SILENCE_REFLECTIONS" -> 5
      [] pool = "ENTROPY_REFLECTIONS" -> 3
      [] pool = "PATTERN_REFLECTIONS" -> 2
      [] pool = "REINDEX_REFLECTIONS" -> 3

\* formatSilence: `${hours}h ${minutes}m`, or `${minutes}m` under an hour
formatSilence(ms) ==
    LET hours == ms \div HOUR
        minutes == (ms % HOUR) \div MINUTE
    IN  IF hours > 0 THEN <<hours, "h", minutes, "m">> ELSE <<minutes, "m">>

\* averageEntropy.toFixed(2): the two-place decimal rendering of x, kept as
\* the number it renders
toFixed2(x) == <<"toFixed(2)", x>>

prolongedThreshold == 4 * HOUR

\* mutant: the emotion-pattern rule tried before the re-index rule
selectReflectionPatternFirst(silenceMs, cycleCount, stats) ==
    LET dominant == IF stats.dominantEmotion = NullEmotion THEN "neutral"
                    ELSE stats.dominantEmotion
        total == stats.totalInteractions
    IN  IF silenceMs > prolongedThreshold
        THEN [trigger |-> "PROLONGED_SILENCE",
              content |-> [pool |-> "SILENCE_REFLECTIONS",
                           index |-> cycleCount % poolSize("SILENCE_REFLECTIONS"),
                           args |-> <<formatSilence(silenceMs)>>]]
        ELSE IF cycleCount % 3 = 0 /\ stats.dominantEmotion # NullEmotion
        THEN [trigger |-> "EMOTIONAL_PATTERN",
              content |-> [pool |-> "PATTERN_REFLECTIONS",
                           index |-> cycleCount % poolSize("PATTERN_REFLECTIONS"),
                           args |-> <<IF dominant \in PatternEmotions
                                      THEN dominant ELSE "neutral">>]]
        ELSE IF cycleCount % 4 = 0 /\ total > 0
        THEN [trigger |-> "VAULT_REINDEX",
              content |-> [pool |-> "REINDEX_REFLECTIONS",
                           index |-> cycleCount % poolSize("REINDEX_REFLECTIONS"),
                           args |-> <<total>>]]
        ELSE IF total > 0
        THEN [trigger |-> "ENTROPY_DRIFT",
              content |-> [pool |-> "ENTROPY_REFLECTIONS",
                           index |-> cycleCount % poolSize("ENTROPY_REFLECTIONS"),
                           args |-> <<toFixed2(stats.averageEntropy), dominant>>]]
        ELSE [trigger |-> "SCHEDULED_TICK",
              content |-> [pool |-> "The vault is empty.", index |-> 0,
                           args |-> <<>>]]

\* the if/else chain of generateShadowReflection: the trigger and the content.
\* A content is the pool it is taken from, the index of the template in the
\* pool, and the values the template is filled with; for an emotion pattern
\* the pool is PATTERN_REFLECTIONS[dominant], PATTERN_REFLECTIONS['neutral']
\* when the emotion has none.
selectReflection(silenceMs, cycleCount, stats) ==
    LET dominant == IF stats.dominantEmotion = NullEmotion THEN "neutral"
                    ELSE stats.dominantEmotion
        total == stats.totalInteractions
    IN  IF silenceMs > prolongedThreshold
        THEN [trigger |-> "PROLONGED_SILENCE",
              content |-> [pool |-> "SILENCE_REFLECTIONS",
                           index |-> cycleCount % poolSize("SILENCE_REFLECTIONS"),
                           args |-> <<formatSilence(silenceMs)>>]]
        ELSE IF cycleCount % 4 = 0 /\ total > 0
        THEN [trigger |-> "VAULT_REINDEX",
              content |-> [pool |-> "REINDEX_REFLECTIONS",
                           index |-> cycleCount % poolSize("REINDEX_REFLECTIONS"),
                           args |-> <<total>>]]
        ELSE IF cycleCount % 3 = 0 /\ stats.dominantEmotion # NullEmotion
        THEN [trigger |-> "EMOTIONAL_PATTERN",
              content |-> [pool |-> "PATTERN_REFLECTIONS",
                           index |-> cycleCount % poolSize("PATTERN_REFLECTIONS"),
                           args |-> <<IF dominant \in PatternEmotions
                                      THEN dominant ELSE "neutral">>]]
        ELSE IF total > 0
        THEN [trigger |-> "ENTROPY_DRIFT",
              content |-> [pool |-> "ENTROPY_REFLECTIONS",
                           index |-> cycleCount % poolSize("ENTROPY_REFLECTIONS"),
                           args |-> <<toFixed2(stats.averageEntropy), dominant>>]]
        ELSE [trigger |-> "SCHEDULED_TICK",
              content |-> [pool |-> "The vault is empty.", index |-> 0,
                           args |-> <<>>]]

\* generateShadowReflection at time `at` (its Date.now()); `id` stands for
\* generateId(), a fresh identifier
generateShadowReflection(vault, lastContact, cycleCount, at, id) ==
    LET silenceMs == at - lastContact
        chosen == selectReflection(silenceMs, cycleCount, vault.stats)
    IN  [id |-> id,
         timestamp |-> at,
         content |-> chosen.content,
         trigger |-> chosen.trigger,
         vaultSnapshot |->
             [totalInteractions |-> vault.stats.totalInteractions,
              dominantEmotion |-> vault.stats.dominantEmotion,
              averageEntropy |-> vault.stats.averageEntropy,
              lastHostContact |-> lastContact,
              silenceDurationMs |-> silenceMs],
         delivered |-> FALSE]

\* ------------------------------------------------------ evolution/cron.ts
DefaultConfig ==
    [silenceThresholdMs |-> HALF_HOUR, tickIntervalMs |-> HALF_HOUR,
     maxPendingReflections |-> MAX_PENDING,
     maxDeliveryBatch |-> MAX_DELIVERY_BATCH]

\* the Partial<EvolutionConfig> values callers hand over
Overrides == {[tickIntervalMs |-> HOUR]}

\* { ...config, ...partial }
mergeConfig(cfg, partial) ==
    [k \in DOMAIN cfg |-> IF k \in DOMAIN partial THEN partial[k] ELSE cfg[k]]

\* setInterval returns a handle no active timer has
freshHandle(ts) ==
    CHOOSE h \in HandleIds :
        /\ \A t \in ts : t.id # h
        /\ \A g \in HandleIds : (\A t \in ts : t.id # g) => h <= g

setInterval(ts, callback, interval) ==
    ts \cup {[id |-> freshHandle(ts), callback |-> callback, interval |-> interval]}

\* mutant: clearInterval without effect
clearIntervalKept(ts, handle) == ts

clearInterval(ts, handle) == {t \in ts : t.id # handle}

\* mutant: start without its guard
startUnguarded(st, ts, cfg) ==
    [state |-> [st EXCEPT !.running = TRUE, !.intervalHandle = freshHandle(ts)],
     timers |-> setInterval(ts, "tick", cfg.tickIntervalMs)]

\* start: nothing when running; else the flag and a new interval timer
start(st, ts, cfg) ==
    IF st.running THEN [state |-> st, timers |-> ts]
    ELSE [state |-> [st EXCEPT !.running = TRUE,
                               !.intervalHandle = freshHandle(ts)],
          timers |-> setInterval(ts, "tick", cfg.tickIntervalMs)]

\* stop: nothing when not running or without a handle; else the timer is
\* cleared, the handle nulled and the flag lowered
stop(st, ts) ==
    IF ~st.running \/ st.intervalHandle = NullHandle
    THEN [state |-> st, timers |-> ts]
    ELSE [state |-> [st EXCEPT !.running = FALSE,
                               !.intervalHandle = NullHandle],
          timers |-> clearInterval(ts, st.intervalHandle)]

\* mutant: the cycle counter kept
resetCyclesKept(st) == st

\* resetCycles
resetCycles(st) == [st EXCEPT !.cycleCount = 0]

\* mutant: a throwing tick callback ends the engine
afterCallbackThrowHalts(st, ts) == stop(st, ts)

\* the catch block of the interval callback: the error is logged, the
\* engine is as the callback left it
afterCallbackThrow(st, ts) == [state |-> st, timers |-> ts]

\* setCronConfig: the merge, and a stop and start when running
setCronConfig(st, ts, cfg, partial) ==
    LET merged == mergeConfig(cfg, partial)
        stopped == stop(st, ts)
        started == start(stopped.state, stopped.timers, merged)
    IN  IF st.running
        THEN [config |-> merged, state |-> started.state,
              timers |-> started.timers]
        ELSE [config |-> merged, state |-> st, timers |-> ts]

\* ---------------------------------------------------- evolution/index.ts
notEvolution == <<vaultVars, idVars, shadowVars, cipherVars, awakeningVars>>

\* mutant: the queue without its cap
queueAfterTickUncapped(pending, reflection) == Append(pending, reflection)

\* handleTick: push, and slice(-MAX_PENDING) past the cap
queueAfterTick(pending, reflection) ==
    LET pushed == Append(pending, reflection)
    IN  IF Len(pushed) > MAX_PENDING THEN sliceLast(pushed, MAX_PENDING)
        ELSE pushed

\* the ids of a sequence of reflections, in order
idsOf(reflections) == [i \in DOMAIN reflections |-> reflections[i].id]

\* mutant: the batch taken from the young end of the queue
drainBatchNewest(pending) ==
    LET batch == sliceLast(pending, Min(Len(pending), MAX_DELIVERY_BATCH))
    IN  [i \in DOMAIN batch |-> [batch[i] EXCEPT !.delivered = TRUE]]

\* drainPendingReflections: slice(0, MAX_DELIVERY_BATCH) with every element
\* marked delivered
drainBatch(pending) ==
    LET batch == SubSeq(pending, 1, Min(Len(pending), MAX_DELIVERY_BATCH))
    IN  [i \in DOMAIN batch |-> [batch[i] EXCEPT !.delivered = TRUE]]

\* mutant: the queue left as it was by a drain
drainRemainingKeepAll(pending, batch) == pending

\* drainPendingReflections: the marks are on the queue's own objects, and
\* filter(!delivered) keeps the unmarked ones
drainRemaining(pending, batch) ==
    LET batchIds == {batch[i].id : i \in DOMAIN batch}
        marked == [i \in DOMAIN pending |->
                      IF pending[i].id \in batchIds
                      THEN [pending[i] EXCEPT !.delivered = TRUE]
                      ELSE pending[i]]
        notDelivered(r) == ~r.delivered
    IN  SelectSeq(marked, notDelivered)

\* ------------------------------------------------------ awakening/index.ts
\* calls of evaluateAndNotify that create an event, per behaviour
MaxEvaluations == 2
\* eventLog keeps the 50 latest events
EVENT_LOG_CAP == 50

PRIORITY_ORDER == <<"LOW", "MEDIUM", "HIGH", "CRITICAL">>
\* PRIORITY_ORDER.indexOf(p)
priorityIndex(p) == CHOOSE i \in DOMAIN PRIORITY_ORDER : PRIORITY_ORDER[i] = p

\* the module's `config` as loaded
AwakeningDefaults ==
    [enabled |-> TRUE, minPriority |-> "MEDIUM", cooldownMs |-> HOUR,
     minSilenceMs |-> HOUR]

\* calculatePriority; averageEntropy is in thousandths
calculatePriority(reflection) ==
    LET silenceMs == reflection.vaultSnapshot.silenceDurationMs
        entropy == reflection.vaultSnapshot.averageEntropy
    IN  IF reflection.trigger = "PROLONGED_SILENCE"
        THEN IF silenceMs >= 8 * HOUR THEN "CRITICAL"
             ELSE IF silenceMs >= 4 * HOUR THEN "HIGH"
             ELSE "MEDIUM"
        ELSE IF reflection.trigger = "EMOTIONAL_PATTERN" /\ entropy > 600
        THEN "HIGH"
        ELSE IF reflection.trigger \in {"VAULT_REINDEX", "ENTROPY_DRIFT"}
        THEN "MEDIUM"
        ELSE "LOW"

\* lastDispatchAt && (Date.now() - lastDispatchAt) < config.cooldownMs
inCooldown(lastDispatch, at, cfg) ==
    lastDispatch # <<>> /\ (at - lastDispatch[1]) < cfg.cooldownMs

\* the four tests after which evaluateAndNotify returns null
suppressed(reflection, cfg, lastDispatch, at) ==
    \/ ~cfg.enabled
    \/ priorityIndex(calculatePriority(reflection)) < priorityIndex(cfg.minPriority)
    \/ reflection.vaultSnapshot.silenceDurationMs < cfg.minSilenceMs
    \/ inCooldown(lastDispatch, at, cfg)

\* the event built before the dispatch; `enabledAtEvaluation` keeps
\* config.enabled as it was when the call started (history)
awakeningEvent(reflection, cfg, at, id) ==
    [id |-> id,
     timestamp |-> at,
     priority |-> calculatePriority(reflection),
     reflectionTrigger |-> reflection.trigger,
     silenceDurationMs |-> reflection.vaultSnapshot.silenceDurationMs,
     delivered |-> FALSE,
     enabledAtEvaluation |-> cfg.enabled]

\* evaluateAndNotify up to its `await dispatchNotification(...)`: nothing
\* for a suppressed reflection, otherwise an event whose dispatch is pending
evaluateAndNotify(reflection) ==
    IF suppressed(reflection, awakeningConfig, lastDispatchAt, now)
    THEN UNCHANGED <<dispatching, eventsCreated>>
    ELSE /\ dispatching' = dispatching \cup
                {awakeningEvent(reflection, awakeningConfig, now,
                                eventsCreated + 1)}
         /\ eventsCreated' = eventsCreated + 1

\* eventLog.push(event) and the splice that keeps the latest entries
eventLogAfterPush(log, event) ==
    LET pushed == Append(log, event)
    IN  IF Len(pushed) > EVENT_LOG_CAP
        THEN SubSeq(pushed, Len(pushed) - EVENT_LOG_CAP + 1, Len(pushed))
        ELSE pushed

\* the interval callback of start: cycleCount++, lastTickAt, and the tick
\* callback inside try/catch. handleTick: loadVault (which may throw out of
\* ensureVaultDir, and fills the vault cache), generateShadowReflection, the
\* push with the cap, totalGenerated++, and evaluateAndNotify, which runs up
\* to its await and whose rejection is caught and logged.
Tick(mkdirOk, dispatchOk) ==
    /\ \E t \in timers : t.callback = "tick"
    /\ cronState.cycleCount < MaxCycles
    /\ totalGenerated < MaxGenerated
    /\ LET cycle == cronState.cycleCount + 1
           ticked == [cronState EXCEPT !.cycleCount = cycle,
                                       !.lastTickAt = <<now>>]
           before == [cycleBefore |-> cronState.cycleCount,
                      pendingBefore |-> pendingReflections]
       IN
       IF tickCallback = "null"
       THEN /\ cronState' = ticked
            /\ evoLast' = [op |-> "tick", outcome |-> "no callback",
                           before |-> before]
            /\ UNCHANGED <<pendingReflections, totalGenerated, evictedLog,
                           timers, vaultCache, vaultDir, dispatching,
                           eventsCreated>>
       ELSE IF loadVaultThrows(mkdirOk)
       THEN LET caught == afterCallbackThrow(ticked, timers)
            IN  /\ cronState' = caught.state
                /\ timers' = caught.timers
                /\ evoLast' = [op |-> "tick", outcome |-> "callback threw",
                               before |-> before]
                /\ UNCHANGED <<pendingReflections, totalGenerated,
                               evictedLog, vaultCache, vaultDir, dispatching,
                               eventsCreated>>
       ELSE LET vault == loadVault
                reflection ==
                    generateShadowReflection(vault, lastHostContact, cycle,
                                             now, totalGenerated + 1)
                kept == queueAfterTick(pendingReflections, reflection)
                dropped == Len(pendingReflections) + 1 - Len(kept)
            IN  /\ cronState' = ticked
                /\ pendingReflections' = kept
                /\ totalGenerated' = totalGenerated + 1
                /\ evictedLog' = evictedLog \o
                       idsOf(SubSeq(pendingReflections, 1, dropped))
                /\ vaultCache' = <<vault>>
                /\ vaultDir' = TRUE
                /\ evoLast' = [op |-> "tick",
                               outcome |-> IF dispatchOk THEN "generated"
                                           ELSE "dispatch failed",
                               before |-> before,
                               reflection |-> reflection]
                /\ IF dispatchOk THEN evaluateAndNotify(reflection)
                   ELSE UNCHANGED <<dispatching, eventsCreated>>
                /\ UNCHANGED timers
    /\ UNCHANGED <<now, lastHostContact, silenceCheckHandle, tickCallback,
                   config, deliveredLog>>
    /\ UNCHANGED <<vaultFile, vaultCalls, vaultLast, vaultPersisted>>
    /\ UNCHANGED <<awakeningConfig, lastDispatchAt, totalDispatched,
                   totalFailed, eventLog>>
    /\ UNCHANGED <<idVars, shadowVars, cipherVars>>

\* some tick timer fires
TickFires ==
    \E mkdirOk \in BOOLEAN, dispatchOk \in BOOLEAN : Tick(mkdirOk, dispatchOk)

\* mutant: the silence test never met
silenceReachedNever(silence, threshold) == FALSE
\* mutant: the silence test a minute early
silenceReachedEarly(silence, threshold) == silence >= threshold - MINUTE
\* silence >= config.silenceThresholdMs
silenceReached(silence, threshold) == silence >= threshold

\* silenceMonitor, fired by an active monitor timer
SilenceMonitor ==
    /\ \E t \in timers : t.callback = "silenceMonitor"
    /\ LET silence == now - lastHostContact
           started == start(cronState, timers, config)
       IN  IF silenceReached(silence, config.silenceThresholdMs) /\ ~cronState.running
           THEN cronState' = started.state /\ timers' = started.timers
           ELSE UNCHANGED <<cronState, timers>>
    /\ evoLast' = [op |-> "silenceMonitor"]
    /\ UNCHANGED <<now, lastHostContact, pendingReflections, totalGenerated,
                   silenceCheckHandle, tickCallback, config, deliveredLog,
                   evictedLog>>
    /\ UNCHANGED notEvolution

\* initializeEvolution(overrides?): setCronConfig, onTick(handleTick), the
\* old monitor timer cleared and a new one set
InitializeEvolution(overrides) ==
    /\ LET configured ==
               IF overrides = <<>>
               THEN [config |-> config, state |-> cronState, timers |-> timers]
               ELSE setCronConfig(cronState, timers, config, overrides[1])
           cleared ==
               IF silenceCheckHandle # NullHandle
               THEN clearInterval(configured.timers, silenceCheckHandle)
               ELSE configured.timers
       IN  /\ config' = configured.config
           /\ cronState' = configured.state
           /\ silenceCheckHandle' = freshHandle(cleared)
           /\ timers' = setInterval(cleared, "silenceMonitor", MINUTE)
    /\ tickCallback' = "handleTick"
    /\ evoLast' = [op |-> "initializeEvolution"]
    /\ UNCHANGED <<now, lastHostContact, pendingReflections, totalGenerated,
                   deliveredLog, evictedLog>>
    /\ UNCHANGED notEvolution

\* recordHostActivity
RecordHostActivity ==
    /\ lastHostContact' = now
    /\ LET stopped == stop(cronState, timers)
       IN  IF cronState.running
           THEN /\ cronState' = resetCycles(stopped.state)
                /\ timers' = stopped.timers
           ELSE UNCHANGED <<cronState, timers>>
    /\ evoLast' = [op |-> "recordHostActivity", at |-> now,
                   wasRunning |-> cronState.running,
                   cycleBefore |-> cronState.cycleCount,
                   pendingBefore |-> pendingReflections,
                   totalBefore |-> totalGenerated]
    /\ UNCHANGED <<now, pendingReflections, totalGenerated, silenceCheckHandle,
                   tickCallback, config, deliveredLog, evictedLog>>
    /\ UNCHANGED notEvolution

\* drainPendingReflections (getReflectionPromptBlock)
DrainPendingReflections ==
    /\ LET batch == IF Len(pendingReflections) = 0 THEN <<>>
                    ELSE drainBatch(pendingReflections)
       IN  /\ pendingReflections' =
                  IF Len(pendingReflections) = 0 THEN pendingReflections
                  ELSE drainRemaining(pendingReflections, batch)
           /\ deliveredLog' = deliveredLog \o idsOf(batch)
           /\ evoLast' = [op |-> "drainPendingReflections", returned |-> batch,
                          pendingBefore |-> pendingReflections]
    /\ UNCHANGED <<now, lastHostContact, totalGenerated, silenceCheckHandle,
                   cronState, tickCallback, config, timers, evictedLog>>
    /\ UNCHANGED notEvolution

\* setCronConfig called on its own
SetCronConfig(partial) ==
    /\ LET configured == setCronConfig(cronState, timers, config, partial)
       IN  /\ config' = configured.config
           /\ cronState' = configured.state
           /\ timers' = configured.timers
    /\ evoLast' = [op |-> "setCronConfig"]
    /\ UNCHANGED <<now, lastHostContact, pendingReflections, totalGenerated,
                   silenceCheckHandle, tickCallback, deliveredLog, evictedLog>>
    /\ UNCHANGED notEvolution

\* start called on its own
Start ==
    /\ LET started == start(cronState, timers, config)
       IN  cronState' = started.state /\ timers' = started.timers
    /\ evoLast' = [op |-> "start", stateBefore |-> cronState,
                   timersBefore |-> timers]
    /\ UNCHANGED <<now, lastHostContact, pendingReflections, totalGenerated,
                   silenceCheckHandle, tickCallback, config, deliveredLog,
                   evictedLog>>
    /\ UNCHANGED notEvolution

\* stop called on its own
Stop ==
    /\ LET stopped == stop(cronState, timers)
       IN  cronState' = stopped.state /\ timers' = stopped.timers
    /\ evoLast' = [op |-> "stop", stateBefore |-> cronState,
                   timersBefore |-> timers]
    /\ UNCHANGED <<now, lastHostContact, pendingReflections, totalGenerated,
                   silenceCheckHandle, tickCallback, config, deliveredLog,
                   evictedLog>>
    /\ UNCHANGED notEvolution

\* shutdownEvolution: stopCron, and the monitor timer cleared and nulled
ShutdownEvolution ==
    /\ LET stopped == stop(cronState, timers)
       IN  /\ cronState' = stopped.state
           /\ timers' = IF silenceCheckHandle # NullHandle
                        THEN clearInterval(stopped.timers, silenceCheckHandle)
                        ELSE stopped.timers
    /\ silenceCheckHandle' = NullHandle
    /\ evoLast' = [op |-> "shutdownEvolution",
                   wasRunning |-> cronState.running,
                   monitored |-> silenceCheckHandle # NullHandle,
                   pendingBefore |-> pendingReflections,
                   totalBefore |-> totalGenerated,
                   contactBefore |-> lastHostContact,
                   cycleBefore |-> cronState.cycleCount]
    /\ UNCHANGED <<now, lastHostContact, pendingReflections, totalGenerated,
                   tickCallback, config, deliveredLog, evictedLog>>
    /\ UNCHANGED notEvolution

\* the instants at which something is called or fires: the start, and past
\* the silence threshold and the prolonged-silence threshold
Instants == {0, prolongedThreshold + HALF_HOUR}

\* time passes
ClockAdvance(t) ==
    /\ t > now
    /\ now' = t
    /\ evoLast' = [op |-> "clock"]
    /\ UNCHANGED <<lastHostContact, pendingReflections, totalGenerated,
                   silenceCheckHandle, cronState, tickCallback, config, timers,
                   deliveredLog, evictedLog>>
    /\ UNCHANGED notEvolution

\* the modules as loaded: lastHostContact = Date.now(), no timer, no callback
EvolutionInit ==
    /\ now = 0
    /\ lastHostContact = 0
    /\ pendingReflections = <<>>
    /\ totalGenerated = 0
    /\ silenceCheckHandle = NullHandle
    /\ cronState = [intervalHandle |-> NullHandle, running |-> FALSE,
                cycleCount |-> 0, lastTickAt |-> <<>>]
    /\ tickCallback = "null"
    /\ config = DefaultConfig
    /\ timers = {}
    /\ deliveredLog = <<>>
    /\ evictedLog = <<>>
    /\ evoLast = [op |-> "none"]

EvolutionNext ==
    \/ TickFires
    \/ SilenceMonitor
    \/ \E overrides \in {<<>>} \cup {<<o>> : o \in Overrides} :
           InitializeEvolution(overrides)
    \/ RecordHostActivity
    \/ DrainPendingReflections
    \/ \E partial \in Overrides : SetCronConfig(partial)
    \/ Start
    \/ Stop
    \/ ShutdownEvolution
    \/ \E t \in Instants : ClockAdvance(t)

\* The scheduler as the process runs it: the controller's entry points
\* (index.ts) and the two timers; cron.ts is driven by the controller only.
\* The instants include the last minute before the default silence
\* threshold and the threshold itself.
SchedulerInstants == Instants \cup {HALF_HOUR - MINUTE, HALF_HOUR}
LastInstant == prolongedThreshold + HALF_HOUR

SchedulerClock == \E t \in SchedulerInstants : ClockAdvance(t)

SchedulerNext ==
    \/ TickFires
    \/ SilenceMonitor
    \/ \E overrides \in {<<>>} \cup {<<o>> : o \in Overrides} :
           InitializeEvolution(overrides)
    \/ RecordHostActivity
    \/ DrainPendingReflections
    \/ ShutdownEvolution
    \/ SchedulerClock



\* generateShadowReflection on its own: the vaults, the times and the cycle
\* counts it is called with
MaxShadowCycle == 12
ShadowVaults ==
    {createEmptyVault, StoredVault,
     appendToTimeline(StoredVault, createTimelineEntry(1, "fearful", 1000))}
ShadowInputs ==
    [vault : ShadowVaults, lastHostContact : {0},
     now : {0, prolongedThreshold, prolongedThreshold + MINUTE},
     cycleCount : 0..MaxShadowCycle]

GenerateShadowReflection ==
    /\ shadowOutput = <<>>
    /\ shadowOutput' =
           <<generateShadowReflection(shadowInput.vault,
                                      shadowInput.lastHostContact,
                                      shadowInput.cycleCount,
                                      shadowInput.now, 1)>>
    /\ UNCHANGED shadowInput
    /\ UNCHANGED <<vaultVars, idVars, evoVars, cipherVars, awakeningVars>>

ShadowInit == shadowInput \in ShadowInputs /\ shadowOutput = <<>>
\* no call of generateShadowReflection on its own
ShadowIdle == shadowInput = <<>> /\ shadowOutput = <<>>

\* ------------------------------------------- awakening/index.ts on its own
\* the reflections evaluateAndNotify is handed: those the generator makes
\* now, for the vaults and cycle counts of ShadowInputs
AwakeningCycles == 1..4
AwakeningReflections ==
    {generateShadowReflection(vault, lastHostContact, cycle, now, 1) :
        vault \in ShadowVaults, cycle \in AwakeningCycles}

\* a call of evaluateAndNotify, up to its await
EvaluateAndNotify(reflection) ==
    /\ eventsCreated < MaxEvaluations
    /\ evaluateAndNotify(reflection)
    /\ UNCHANGED <<awakeningConfig, lastDispatchAt, totalDispatched,
                   totalFailed, eventLog>>
    /\ UNCHANGED <<vaultVars, idVars, evoVars, shadowVars, cipherVars>>

\* the notifier's callback resolves a pending dispatch and the call that
\* awaited it runs to its end
DispatchSettles(event, success) ==
    /\ event \in dispatching
    /\ dispatching' = dispatching \ {event}
    /\ IF success
       THEN /\ totalDispatched' = totalDispatched + 1
            /\ lastDispatchAt' = <<now>>
            /\ UNCHANGED totalFailed
       ELSE /\ totalFailed' = totalFailed + 1
            /\ UNCHANGED <<totalDispatched, lastDispatchAt>>
    /\ eventLog' = eventLogAfterPush(eventLog,
                       [event EXCEPT !.delivered = success] @@
                       [settledAt |-> now])
    /\ UNCHANGED <<awakeningConfig, eventsCreated>>
    /\ UNCHANGED <<vaultVars, idVars, evoVars, shadowVars, cipherVars>>

\* setEnabled
SetEnabled(enabled) ==
    /\ awakeningConfig' = [awakeningConfig EXCEPT !.enabled = enabled]
    /\ UNCHANGED <<lastDispatchAt, totalDispatched, totalFailed, eventLog,
                   dispatching, eventsCreated>>
    /\ UNCHANGED <<vaultVars, idVars, evoVars, shadowVars, cipherVars>>

\* the instants at which a reflection is evaluated or a dispatch settles
AwakeningInstants ==
    {0, HALF_HOUR, HOUR, HOUR + HALF_HOUR, 2 * HOUR,
     prolongedThreshold + HALF_HOUR}
AwakeningClock == \E t \in AwakeningInstants : ClockAdvance(t)

AwakeningNext ==
    \/ \E reflection \in AwakeningReflections : EvaluateAndNotify(reflection)
    \/ \E event \in dispatching, success \in BOOLEAN :
           DispatchSettles(event, success)
    \/ \E enabled \in BOOLEAN : SetEnabled(enabled)
    \/ AwakeningClock

\* the module as loaded
AwakeningInit ==
    /\ awakeningConfig = AwakeningDefaults
    /\ lastDispatchAt = <<>>
    /\ totalDispatched = 0
    /\ totalFailed = 0
    /\ eventLog = <<>>
    /\ dispatching = {}
    /\ eventsCreated = 0
\* the module with notifications switched off by setEnabled(false)
AwakeningMuted ==
    /\ awakeningConfig = [AwakeningDefaults EXCEPT !.enabled = FALSE]
    /\ lastDispatchAt = <<>>
    /\ totalDispatched = 0
    /\ totalFailed = 0
    /\ eventLog = <<>>
    /\ dispatching = {}
    /\ eventsCreated = 0

\* ======================================================== lib/crypto.ts
\* A string is a sequence of UTF-16 code units: "a" is an ASCII letter, "HI"
\* a high surrogate, "LO" a low surrogate. A byte string is the sequence of
\* the code points it is the UTF-8 encoding of.
CodeUnits == {"a", "HI", "LO"}
MaxPlaintextLen == 2
Plaintexts == UNION {[1..n -> CodeUnits] : n \in 0..MaxPlaintextLen}
IvCount == 2
MaxEncrypts == 2

ALGORITHM == "aes-256-gcm"

\* a hex string: the bytes it decodes to and how it spells them.
\* buf.toString('hex') writes lower-case digits; "other" is another string
\* that decodes to the same bytes (a digit in upper case, or, for
\* Buffer.from, characters that are no hex digits appended)
HexForms == {"lower", "other"}
toHex(bytes) == [form |-> "lower", bytes |-> bytes]
\* Buffer.from(str, 'hex') and update(str, 'hex', ...) read a digit in either
\* case, and Buffer.from stops at the first character that is no hex digit
fromHex(str) == str.bytes

\* Buffer.from(str, 'utf8') as cipher.update(plaintext, 'utf8', ...) does it:
\* a surrogate pair is one code point, a surrogate without its partner is
\* encoded as U+FFFD
RECURSIVE utf8Encode(_)
utf8Encode(str) ==
    IF str = <<>> THEN <<>>
    ELSE IF Len(str) >= 2 /\ str[1] = "HI" /\ str[2] = "LO"
    THEN <<"U+10000">> \o utf8Encode(SubSeq(str, 3, Len(str)))
    ELSE IF str[1] \in {"HI", "LO"}
    THEN <<"U+FFFD">> \o utf8Encode(Tail(str))
    ELSE <<str[1]>> \o utf8Encode(Tail(str))

\* buf.toString('utf8') as decipher.update(..., 'hex', 'utf8') does it
RECURSIVE utf8Decode(_)
utf8Decode(bytes) ==
    IF bytes = <<>> THEN <<>>
    ELSE (CASE bytes[1] = "U+10000" -> <<"HI", "LO">>
            [] bytes[1] = "U+FFFD"  -> <<"FFFD">>
            [] OTHER                -> <<bytes[1]>>)
         \o utf8Decode(Tail(bytes))

\* the environments deriveKey may find; "" stands for unset or empty
Environments == [VAULT_SECRET : {"", "s1"}, OPENAI_API_KEY : {"", "k1"}]

\* deriveKey: VAULT_SECRET || OPENAI_API_KEY || the default, through PBKDF2
deriveKey(env) ==
    <<"pbkdf2",
      IF env.VAULT_SECRET # "" THEN env.VAULT_SECRET
      ELSE IF env.OPENAI_API_KEY # "" THEN env.OPENAI_API_KEY
      ELSE "xeno-default-key-change-me">>

\* AES-256-GCM: the ciphertext is a function of key, iv and the bytes, the
\* tag authenticates the three
gcmTag(key, iv, bytes) == <<"tag", key, iv, bytes>>

\* encrypt: a random iv, the UTF-8 bytes of the plaintext enciphered, hex
\* all through
\* (iv is what randomBytes(IV_LENGTH) returns in this call)
encryptFixedIv(plaintext, env, iv) ==
    LET key == deriveKey(env)
        bytes == utf8Encode(plaintext)
    IN  [iv |-> toHex(1),
         authTag |-> toHex(gcmTag(key, 1, bytes)),
         ciphertext |-> toHex([key |-> key, iv |-> 1, bytes |-> bytes]),
         algorithm |-> ALGORITHM,
         version |-> 1]
encrypt(plaintext, env, iv) ==
    LET key == deriveKey(env)
        bytes == utf8Encode(plaintext)
    IN  [iv |-> toHex(iv),
         authTag |-> toHex(gcmTag(key, iv, bytes)),
         ciphertext |-> toHex([key |-> key, iv |-> iv, bytes |-> bytes]),
         algorithm |-> ALGORITHM,
         version |-> 1]

\* decrypt: throws on another algorithm and when the tag does not
\* authenticate the ciphertext under the derived key and the iv; else the
\* deciphered bytes as a UTF-8 string
decrypt(envelope, env) ==
    LET key == deriveKey(env)
        iv == fromHex(envelope.iv)
        authTag == fromHex(envelope.authTag)
        ciphertext == fromHex(envelope.ciphertext)
    IN
    IF envelope.algorithm # ALGORITHM THEN [threw |-> TRUE]
    ELSE IF \/ ciphertext.key # key
            \/ ciphertext.iv # iv
            \/ authTag # gcmTag(key, iv, ciphertext.bytes)
    THEN [threw |-> TRUE]
    ELSE [threw |-> FALSE, plaintext |-> utf8Decode(ciphertext.bytes)]

\* verifyIntegrity: whether decrypt returns, the plaintext dropped
verifyIntegrity(envelope, env) ==
    [threw |-> FALSE, value |-> ~decrypt(envelope, env).threw]

\* what a stored envelope may have become when it is handed to decrypt: one
\* of ciphertext, authTag and algorithm changed, the hex fields to other
\* bytes (those of another message under the same key and iv) or to another
\* spelling (the empty ciphertext has one spelling only)
OtherBytes == {<<>>, <<"a">>}
ChangedEnvelopes(e) ==
    LET ct == fromHex(e.ciphertext) IN
      {[e EXCEPT !.ciphertext = [form |-> f, bytes |-> [ct EXCEPT !.bytes = b]]] :
           f \in HexForms, b \in (OtherBytes \cup {ct.bytes}) \ {<<>>}}
      \cup
      {[e EXCEPT !.ciphertext = toHex([ct EXCEPT !.bytes = <<>>])]}
      \cup
      {[e EXCEPT !.authTag = [form |-> f, bytes |-> gcmTag(ct.key, ct.iv, b)]] :
           f \in HexForms, b \in OtherBytes \cup {ct.bytes}}
      \cup
      {[e EXCEPT !.algorithm = a] : a \in {"aes-256-cbc", "AES-256-GCM"}}

\* (the calls of one process: the envelopes so far were made under the key
\* in force)
Encrypt(iv) ==
    /\ Len(cipherIssued) < MaxEncrypts
    /\ cipherResult = <<>>
    /\ \A i \in 1..Len(cipherIssued) : cipherIssued[i].key = deriveKey(cipherEnv)
    /\ LET envelope == encrypt(cipherPlaintext, cipherEnv, iv) IN
        /\ cipherEnvelope' = <<[envelope |-> envelope,
                                original |-> envelope,
                                key |-> deriveKey(cipherEnv)]>>
        /\ cipherIssued' = Append(cipherIssued,
                                  [envelope |-> envelope, randomBytes |-> iv,
                                   key |-> deriveKey(cipherEnv)])
    /\ UNCHANGED <<cipherEnv, cipherPlaintext, cipherResult>>
    /\ UNCHANGED <<vaultVars, idVars, evoVars, shadowVars, awakeningVars>>

Change ==
    /\ cipherEnvelope # <<>>
    /\ cipherResult = <<>>
    /\ cipherEnvelope[1].envelope = cipherEnvelope[1].original
    /\ \E e \in ChangedEnvelopes(cipherEnvelope[1].original) \ {cipherEnvelope[1].original} :
           cipherEnvelope' = <<[cipherEnvelope[1] EXCEPT !.envelope = e]>>
    /\ UNCHANGED <<cipherEnv, cipherPlaintext, cipherIssued, cipherResult>>
    /\ UNCHANGED <<vaultVars, idVars, evoVars, shadowVars, awakeningVars>>

Decrypt ==
    /\ cipherEnvelope # <<>>
    /\ cipherResult = <<>>
    /\ cipherResult' = <<[op |-> "decrypt",
                          returned |-> decrypt(cipherEnvelope[1].envelope, cipherEnv),
                          key |-> deriveKey(cipherEnv)]>>
    /\ UNCHANGED <<cipherEnv, cipherPlaintext, cipherEnvelope, cipherIssued>>
    /\ UNCHANGED <<vaultVars, idVars, evoVars, shadowVars, awakeningVars>>

VerifyIntegrity ==
    /\ cipherEnvelope # <<>>
    /\ cipherResult = <<>>
    /\ cipherResult' = <<[op |-> "verifyIntegrity",
                          returned |-> verifyIntegrity(cipherEnvelope[1].envelope, cipherEnv),
                          key |-> deriveKey(cipherEnv)]>>
    /\ UNCHANGED <<cipherEnv, cipherPlaintext, cipherEnvelope, cipherIssued>>
    /\ UNCHANGED <<vaultVars, idVars, evoVars, shadowVars, awakeningVars>>

\* the process restarted under another environment, an envelope of the
\* earlier one stored
Reconfigure(env) ==
    /\ cipherEnvelope # <<>>
    /\ cipherResult = <<>>
    /\ env # cipherEnv
    /\ cipherEnv' = env
    /\ UNCHANGED <<cipherPlaintext, cipherEnvelope, cipherIssued, cipherResult>>
    /\ UNCHANGED <<vaultVars, idVars, evoVars, shadowVars, awakeningVars>>

CipherInit ==
    /\ cipherEnv \in Environments
    /\ cipherPlaintext \in Plaintexts
    /\ cipherEnvelope = <<>>
    /\ cipherIssued = <<>>
    /\ cipherResult = <<>>
\* no call of encrypt or decrypt on its own
CipherIdle ==
    /\ cipherEnv = [VAULT_SECRET |-> "", OPENAI_API_KEY |-> ""]
    /\ cipherPlaintext = <<>>
    /\ cipherEnvelope = <<>>
    /\ cipherIssued = <<>>
    /\ cipherResult = <<>>

CipherNext ==
    \/ \E iv \in 1..IvCount : Encrypt(iv)
    \/ Change
    \/ Decrypt
    \/ VerifyIntegrity
    \/ \E env \in Environments : Reconfigure(env)

vars == <<vaultVars, idVars, evoVars, shadowVars, cipherVars, awakeningVars>>

\* within one process the vault file is not read again once the vault is
\* loaded, so how a failed write leaves the file makes no difference there
VaultNext ==
    \E emotion \in Emotions, score \in Scores,
       write \in {"written", "refused"}, mkdirOk \in BOOLEAN :
        RecordInteraction(emotion, score, write, mkdirOk)

\* recordInteraction, up to the number of calls explored with restarts
StoreRecordInteraction ==
    /\ vaultCalls < MaxStoreCalls
    /\ \E emotion \in Emotions, score \in Scores, write \in WriteOutcomes,
          mkdirOk \in BOOLEAN :
           RecordInteraction(emotion, score, write, mkdirOk)

StoreNext ==
    \/ StoreRecordInteraction
    \/ \E mkdirOk \in BOOLEAN : ReadVault(mkdirOk)
    \/ VaultRestart

\* the engines and the pure functions not exercised
Idle == EvolutionInit /\ ShadowIdle /\ CipherIdle /\ AwakeningInit

Init == VaultInit /\ IdentityInit /\ Idle

Next ==
    \/ VaultNext \/ StoreNext \/ HandshakeNext \/ LifecycleNext
    \/ EvolutionNext \/ GenerateShadowReflection \/ CipherNext
    \/ AwakeningNext

Spec == Init /\ [][Next]_vars

\* the vault alone, the handshake protocol on arbitrary envelopes, and the
\* identity controller with the envelopes of its own key-pairs
VaultSpec == Init /\ [][VaultNext]_vars
HandshakeSpec == Init /\ [][HandshakeNext]_vars
IdentitySpec == Init /\ [][IdentityNext]_vars
\* the vault store over process restarts, starting from any vault file
LifecycleStart == VaultInit /\ LifecycleInit /\ Idle
LifecycleSpec == LifecycleStart /\ [][LifecycleNext]_vars
StoreStart == StoreInit /\ IdentityInit /\ Idle
StoreSpec == StoreStart /\ [][StoreNext]_vars
\* the evolution engine in a process started without a vault file and with
\* notifications switched off; the notifications are explored on their own
EvolutionStart ==
    /\ VaultInit /\ IdentityInit /\ EvolutionInit /\ ShadowIdle /\ CipherIdle
    /\ AwakeningMuted
EvolutionSpec == EvolutionStart /\ [][EvolutionNext]_vars
\* the scheduler driven through the controller, and the same with the
\* timers and the clock fair: time passes, an active monitor timer fires,
\* and an active tick timer fires
SchedulerSpec == EvolutionStart /\ [][SchedulerNext]_vars
SchedulerFairSpec ==
    /\ SchedulerSpec
    /\ WF_vars(SchedulerClock)
    /\ WF_vars(SilenceMonitor)
    /\ WF_vars(TickFires)
\* generateShadowReflection on its own
ShadowStart ==
    /\ VaultInit /\ IdentityInit /\ EvolutionInit /\ ShadowInit /\ CipherIdle
    /\ AwakeningInit
ShadowSpec == ShadowStart /\ [][GenerateShadowReflection]_vars
\* encrypt and decrypt on their own
CipherStart ==
    /\ VaultInit /\ IdentityInit /\ EvolutionInit /\ ShadowIdle /\ CipherInit
    /\ AwakeningInit
CipherSpec == CipherStart /\ [][CipherNext]_vars
\* evaluateAndNotify and the notifier's callbacks on their own
AwakeningSpec == Init /\ [][AwakeningNext]_vars

\* ======================================================== claims: vault
\* what a fresh reading of the timeline gives, stated without the code's scan
countOf(tl, e) == Cardinality({i \in DOMAIN tl : tl[i].emotion = e})
firstIndexOf(tl, e) ==
    CHOOSE i \in DOMAIN tl : tl[i].emotion = e /\ \A j \in 1..(i - 1) : tl[j].emotion # e
mostFrequent(tl) == {e \in Emotions : countOf(tl, e) > 0 /\ \A f \in Emotions : countOf(tl, f) <= countOf(tl, e)}
scoreTotal(tl) ==
    LET RECURSIVE upTo(_)
        upTo(i) == IF i = 0 THEN 0 ELSE tl[i].entropyScore + upTo(i - 1)
    IN  upTo(Len(tl))

\* C1: in every state reached by recordInteraction calls (eviction included)
\* the cached stats are those of the current timeline: totalInteractions is
\* its length, averageEntropy the mean score rounded to the nearest
\* thousandth (0 when empty), dominantEmotion a most frequent emotion (null
\* when empty).
C1_StatsAreRecomputation ==
    vaultCache # <<>> =>
        LET tl == vaultCache[1].timeline
            st == vaultCache[1].stats
        IN  /\ st.totalInteractions = Len(tl)
            /\ (Len(tl) = 0 => st.averageEntropy = 0 /\ st.dominantEmotion = NullEmotion)
            /\ (Len(tl) > 0 =>
                  /\ 2 * Abs(st.averageEntropy * Len(tl) - scoreTotal(tl)) <= Len(tl)
                  /\ st.dominantEmotion \in mostFrequent(tl))

\* C1 witness: an eviction has happened and the mean is not a whole number of
\* thousandths (the rounding acted)
C1_Witness ==
    /\ vaultCache # <<>>
    /\ vaultCalls > MAX_TIMELINE_SIZE
    /\ LET tl == vaultCache[1].timeline
       IN  /\ scoreTotal(tl) % Len(tl) # 0
           /\ Cardinality(mostFrequent(tl)) = 1

\* C2: after n recordInteraction calls on an initially empty vault the
\* timeline is exactly the last min(n, cap) recorded entries in recording
\* order, its length never exceeds the cap, and totalInteractions is
\* min(n, cap).
C2_LastEntriesRetained ==
    /\ vaultCalls = 0 => (vaultCache = <<>> /\ loadVault.timeline = <<>>)
    /\ vaultCalls > 0 =>
        /\ vaultCache # <<>>
        /\ LET tl == vaultCache[1].timeline
               n  == Min(vaultCalls, MAX_TIMELINE_SIZE)
           IN  /\ Len(tl) = n
               /\ Len(tl) <= MAX_TIMELINE_SIZE
               /\ \A i \in 1..n : tl[i].seq = vaultCalls - n + i
               /\ vaultCache[1].stats.totalInteractions = n

\* C2 witness: more calls than the cap, the oldest entries gone
C2_Witness ==
    /\ vaultCalls = MAX_TIMELINE_SIZE + 2
    /\ vaultCache # <<>>
    /\ Len(vaultCache[1].timeline) = MAX_TIMELINE_SIZE
    /\ vaultCache[1].timeline[1].seq = 3

\* C3: when several emotions share the highest count, dominantEmotion is the
\* one of them that occurs first in the timeline.
C3_TieFirstEncountered ==
    vaultCache # <<>> /\ Len(vaultCache[1].timeline) > 0 =>
        LET tl  == vaultCache[1].timeline
            dom == vaultCache[1].stats.dominantEmotion
        IN  /\ dom \in mostFrequent(tl)
            /\ \A e \in mostFrequent(tl) : firstIndexOf(tl, dom) <= firstIndexOf(tl, e)

\* C3 witness: one greedy entry then one fearful entry
C3_Witness ==
    /\ vaultCache # <<>>
    /\ Len(vaultCache[1].timeline) = 2
    /\ vaultCache[1].timeline[1].emotion = "greedy"
    /\ vaultCache[1].timeline[2].emotion = "fearful"
    /\ vaultCache[1].stats.dominantEmotion = "greedy"

\* ===================================================== claims: identity
\* the nonce is a number (not NaN) and not above the watermark
staleNonce(envelope, watermark) ==
    /\ envelope.nonce[1] = "number" /\ watermark[1] = "number"
    /\ envelope.nonce[2] <= watermark[2]
contentIsString(envelope) == envelope.content \in Contents
fingerprintAsExpected(envelope, expected) ==
    expected = <<>> \/ envelope.fingerprint = expected[1]
hasReason(result) == "reason" \in DOMAIN result
reasonIs(result, category) == hasReason(result) /\ result.reason = category
\* what signMessage returns for some key-pair, content and counter value
producedBySign(envelope) ==
    \E k \in Signers, c \in SignedContents, n \in 0..(MaxNonce - 1) :
        envelope = signMessage(c, generateKeypair(k), n)
\* a signed envelope whose content was then replaced by another string
contentTampered(envelope) ==
    \E k \in Signers, c \in SignedContents, n \in 0..(MaxNonce - 1) :
        /\ envelope.content \in Contents \ {c}
        /\ envelope = [signMessage(c, generateKeypair(k), n) EXCEPT
                          !.content = envelope.content]

C6_FirstFailingCheckGivesReason ==
    last.op = "verify" =>
        LET e == last.envelope
            r == last.result
        IN  IF isNull(e) \/ ~contentIsString(e)
            THEN reasonIs(r, "STRUCTURAL_FAILURE")
            ELSE IF ~fingerprintAsExpected(e, last.expected)
            THEN reasonIs(r, "FINGERPRINT_MISMATCH")
            ELSE IF staleNonce(e, last.before)
            THEN reasonIs(r, "REPLAY_DETECTED")
            ELSE \/ r.valid
                 \/ /\ hasReason(r)
                    /\ r.reason \in {"INCOMPLETE_ENVELOPE", "VERIFICATION_ERROR",
                                     "SIGNATURE_MISMATCH"}

\* C6 witness: a wrong fingerprint together with a stale nonce and a bad
\* signature is reported as a fingerprint mismatch
C6_Witness ==
    /\ last.op = "verify"
    /\ ~isNull(last.envelope)
    /\ contentIsString(last.envelope)
    /\ ~fingerprintAsExpected(last.envelope, last.expected)
    /\ staleNonce(last.envelope, last.before)
    /\ last.before[2] > 0
    /\ last.envelope.signature = GarbageSig
    /\ reasonIs(last.result, "FINGERPRINT_MISMATCH")

FiveCategories ==
    {"STRUCTURAL_FAILURE", "FINGERPRINT_MISMATCH", "REPLAY_DETECTED",
     "SIGNATURE_MISMATCH", "VERIFICATION_ERROR"}

\* C7 as claimed: every verification returns a result whose reason is present
\* exactly when valid=false and is one of the five categories.
C7_Claimed_ReasonInFiveCategories ==
    last.op = "verify" =>
        /\ last.result.valid \in BOOLEAN
        /\ hasReason(last.result) <=> ~last.result.valid
        /\ hasReason(last.result) => last.result.reason \in FiveCategories

\* C7 amended: every verification returns a result whose reason is present
\* exactly when valid=false and is one of six categories: the five claimed
\* and INCOMPLETE_ENVELOPE (signature, signer key or content empty).
C7_ReasonInSixCategories ==
    last.op = "verify" =>
        /\ last.result.valid \in BOOLEAN
        /\ hasReason(last.result) <=> ~last.result.valid
        /\ hasReason(last.result) =>
              last.result.reason \in FiveCategories \cup {"INCOMPLETE_ENVELOPE"}

\* C7 witness: a signer key that does not parse makes verify() throw, and the
\* caller gets a result with the verification-exception reason
C7_Witness ==
    /\ last.op = "verify"
    /\ ~isNull(last.envelope)
    /\ last.envelope.signerPublicKey = GarbageHex
    /\ ~last.result.valid
    /\ reasonIs(last.result, "VERIFICATION_ERROR")

\* C8 as claimed: an envelope produced by sign for any content, verified while
\* its nonce is fresh and against no or its own fingerprint, is valid and the
\* result carries the key-pair's fingerprint.
C8_Claimed_SignedEnvelopeVerifies ==
    (last.op = "verify" /\ producedBySign(last.envelope)
        /\ fingerprintAsExpected(last.envelope, last.expected)
        /\ ~staleNonce(last.envelope, last.before)) =>
        /\ last.result.valid
        /\ last.result.fingerprint =
              computeFingerprint(last.envelope.signerPublicKey)

\* C9 as claimed: a signed envelope whose content was replaced, reaching the
\* signature check, is rejected with the signature-mismatch reason and the
\* watermark stays.
C9_Claimed_TamperedContentIsSignatureMismatch ==
    (last.op = "verify" /\ ~isNull(last.envelope)
        /\ contentIsString(last.envelope) /\ contentTampered(last.envelope)
        /\ fingerprintAsExpected(last.envelope, last.expected)
        /\ ~staleNonce(last.envelope, last.before)) =>
        /\ ~last.result.valid
        /\ reasonIs(last.result, "SIGNATURE_MISMATCH")
        /\ lastVerifiedNonce = last.before

\* C10: three recordVerificationFailure calls in a row from SOVEREIGN with no
\* recorded failure leave the identity RESTRICTED without an active key-pair,
\* and until initializeIdentity is called again it stays so and every
\* signResponse returns a restricted envelope.
C10_ThreeFailuresRestrict ==
    rvf.tripped =>
        /\ identityState.mode = "RESTRICTED"
        /\ activeKeypair = <<>>
        /\ last.op = "signResponse" =>
              /\ isRestrictedEnvelope(last.envelope)
              /\ last.envelope.nonce = Num(0)

\* C10 witness: after the third failure in a row a signResponse has returned
\* a restricted envelope
C10_Witness ==
    /\ rvf.tripped
    /\ last.op = "signResponse"
    /\ isRestrictedEnvelope(last.envelope)
    /\ identityState.verificationFailures = FailureThreshold + 1

\* ============================================== claims: identity lifecycle
initialized == last.op = "initializeIdentity"
signedNow == last.op = "signResponse" /\ ~last.restrictedBefore /\ ~last.threw
storedKeypairMismatch(file) ==
    /\ file # <<>>
    /\ "keypair" \in DOMAIN file[1]
    /\ computeFingerprint(file[1].keypair.publicKey) # file[1].keypair.fingerprint

\* C11 as claimed: a successful signResponse resets the failure counter, so
\* that only failures in a row add up to the threshold.
C11_Claimed_SuccessfulSignResetsFailures ==
    signedNow => identityState.verificationFailures = 0

\* C12 as claimed: certificate generation (run by the resonance tick when a
\* medal is awarded) in a process whose identity was degraded to RESTRICTED
\* leaves it RESTRICTED.
C12_Claimed_RestrictedIsAbsorbing ==
    (initialized /\ last.caller = "certificate"
        /\ last.modeBefore = "RESTRICTED" /\ last.failuresBefore > 0) =>
        identityState.mode = "RESTRICTED"

\* C13 as claimed: when signResponse returns a restricted envelope because
\* signing threw, the mode is RESTRICTED and no key-pair is active.
C13_Claimed_SigningExceptionRestricts ==
    (last.op = "signResponse" /\ last.threw) =>
        /\ isRestrictedEnvelope(last.envelope)
        /\ identityState.mode = "RESTRICTED"
        /\ activeKeypair = <<>>

\* C14 as claimed: initializeIdentity on an identity file that is present but
\* cannot be read, parsed or decrypted ends RESTRICTED, generates no key-pair
\* and leaves the file as it was.
C14_Claimed_UnreadableFileRestricts ==
    (initialized /\ last.fileBefore = <<CorruptIdentityFile>>) =>
        /\ identityState.mode = "RESTRICTED"
        /\ ~last.generated
        /\ identityFile = last.fileBefore

\* C15: initializeIdentity on a stored key-pair whose fingerprint differs from
\* the one recomputed from its public key ends RESTRICTED with no active
\* key-pair, and the identity file (bootCount included) is as it was.
C15_FingerprintMismatchRestricts ==
    (initialized /\ storedKeypairMismatch(last.fileBefore)) =>
        /\ identityState.mode = "RESTRICTED"
        /\ activeKeypair = <<>>
        /\ identityFile = last.fileBefore
        /\ identityFile[1].bootCount = last.fileBefore[1].bootCount

\* C15 witness: initializeIdentity has met the mismatched file
C15_Witness ==
    /\ initialized
    /\ last.fileBefore = <<MismatchedIdentityFile>>
    /\ identityState.mode = "RESTRICTED"
    /\ identityState.verificationFailures > 0
    /\ identityFile = <<MismatchedIdentityFile>>

\* C16 as claimed: bootCount is 1 after a first boot, and certificate
\* generation in a process that has already loaded its identity leaves the
\* persisted bootCount as it was.
C16_Claimed_BootCountOncePerProcess ==
    /\ (initialized /\ last.generated /\ identityFile # last.fileBefore) =>
          identityFile[1].bootCount = 1
    /\ (initialized /\ last.caller = "certificate"
          /\ last.modeBefore = "SOVEREIGN"
          /\ loadIdentityFile(last.fileBefore) # <<>>) =>
          identityFile[1].bootCount = last.fileBefore[1].bootCount

\* C17: signResponse returns an envelope in every identity state. Called in
\* RESTRICTED mode or without an active key-pair it returns the restricted
\* envelope: empty signature, fingerprint 'RESTRICTED', nonce 0, the content
\* behind the '[RESTRICTED] ' prefix, isRestrictedEnvelope true. When it
\* signs, isRestrictedEnvelope is false for the result.
C17_SignResponseTotal ==
    /\ (nonceCounter < MaxNonce /\ identityState.verificationFailures < MaxFailures)
          => ENABLED (\E content \in SignedContents : SignResponse(content))
    /\ last.op = "signResponse" =>
          /\ DOMAIN last.envelope =
                {"content", "signature", "signerPublicKey", "fingerprint", "nonce"}
          /\ last.restrictedBefore =>
                /\ last.envelope.signature = EmptySig
                /\ last.envelope.fingerprint = RestrictedFp
                /\ last.envelope.nonce = Num(0)
                /\ last.envelope.content = "[RESTRICTED] " \o last.content
                /\ isRestrictedEnvelope(last.envelope)
          /\ last.threw => isRestrictedEnvelope(last.envelope)
          /\ signedNow =>
                /\ ~isRestrictedEnvelope(last.envelope)
                /\ last.envelope.content = last.content

\* C17 witness: a signResponse in RESTRICTED mode after the identity had been
\* SOVEREIGN and signing
C17_Witness ==
    /\ last.op = "signResponse"
    /\ last.restrictedBefore
    /\ identityState.messagesSigned > 0
    /\ isRestrictedEnvelope(last.envelope)
    /\ last.envelope.content = "[RESTRICTED] a"

\* C18: the counter behind the nonce never goes down and moves only when an
\* envelope is signed, by one, and that envelope carries the new value: every
\* signed envelope has a nonce above those of all envelopes signed before it
\* in the process, re-initializations or not.
C18_NonceStrictlyIncreasing ==
    [][ /\ nonceCounter' >= nonceCounter
        /\ (nonceCounter' # nonceCounter) =>
              /\ nonceCounter' = nonceCounter + 1
              /\ last'.op = "signResponse"
              /\ ~isRestrictedEnvelope(last'.envelope)
        /\ (last'.op = "signResponse" /\ ~last'.restrictedBefore /\ ~last'.threw) =>
              /\ last'.envelope.nonce = Num(nonceCounter')
              /\ last'.envelope.nonce[2] > nonceCounter
      ]_vars

\* C18 witness: a second envelope was signed after a re-initialization that
\* followed the first
C18_Witness ==
    /\ signedNow
    /\ last.envelope.nonce = Num(2)
    /\ identityState.messagesSigned = 1

C20_Claimed_RecordInteractionNeverRaises ==
    vaultLast.op = "recordInteraction" =>
        /\ ~vaultLast.raised
        /\ vaultCache # <<>>
        /\ LET tl == vaultCache[1].timeline IN
           /\ tl[Len(tl)].seq = vaultCalls
           /\ vaultCache[1].stats = recalculateStats(tl)

\* C21 as claimed: the vault survives restarts. The first load of a process
\* (one that does not find the cache) returns the timeline and the stats held
\* in memory right after the last recordInteraction whose write succeeded.
C21_Claimed_VaultSurvivesRestart ==
    (/\ vaultLast.op # "none"
     /\ ~vaultLast.raised
     /\ vaultLast.source # "cache"
     /\ vaultLast.persisted # <<>>) =>
        /\ vaultLast.loaded.timeline = vaultLast.persisted[1].timeline
        /\ vaultLast.loaded.stats = vaultLast.persisted[1].stats

\* ==================================================== claims: evolution
tickTimers == {t \in timers : t.callback = "tick"}
monitorTimers == {t \in timers : t.callback = "silenceMonitor"}
\* the ids of a sequence are in generation order: strictly increasing
inGenerationOrder(ids) ==
    \A i \in DOMAIN ids : \A j \in DOMAIN ids : i < j => ids[i] < ids[j]
asSet(seq) == {seq[i] : i \in DOMAIN seq}

C23_DeliveredAtMostOnce ==
    LET pending == asSet(idsOf(pendingReflections))
        delivered == asSet(deliveredLog)
        evicted == asSet(evictedLog)
    IN  /\ Cardinality(delivered) = Len(deliveredLog)
        /\ Cardinality(pending) = Len(pendingReflections)
        /\ Cardinality(evicted) = Len(evictedLog)
        /\ \A i \in DOMAIN pendingReflections : ~pendingReflections[i].delivered
        /\ pending \cap delivered = {}
        /\ pending \cap evicted = {}
        /\ delivered \cap evicted = {}
        /\ pending \cup delivered \cup evicted = 1..totalGenerated
        /\ totalGenerated =
               Len(pendingReflections) + Len(deliveredLog) + Len(evictedLog)

\* C23 witness: reflections of all three kinds after ticks, a host contact
\* and a drain
C23_Witness ==
    /\ pendingReflections # <<>>
    /\ deliveredLog # <<>>
    /\ evictedLog # <<>>
    /\ lastHostContact > 0

\* C24: recordHostActivity sets lastHostContact to now and, when the tick
\* engine is running, stops it and resets the cycle counter to zero; the
\* pending queue and totalGenerated are as before.
C24_HostActivityFrame ==
    evoLast.op = "recordHostActivity" =>
        /\ lastHostContact = evoLast.at
        /\ lastHostContact = now
        /\ evoLast.wasRunning =>
               /\ ~cronState.running
               /\ tickTimers = {}
               /\ cronState.cycleCount = 0
        /\ pendingReflections = evoLast.pendingBefore
        /\ totalGenerated = evoLast.totalBefore

\* C24 witness: host contact while the engine runs, after ticks that queued
\* reflections
C24_Witness ==
    /\ evoLast.op = "recordHostActivity"
    /\ evoLast.wasRunning
    /\ evoLast.cycleBefore > 0
    /\ pendingReflections # <<>>
    /\ now > 0

\* C25: the pending queue never holds more than MAX_PENDING reflections; a
\* tick on a full queue drops the oldest one, and the MAX_PENDING most
\* recently generated remain in generation order.
C25_PendingQueueCapped ==
    /\ Len(pendingReflections) <= MAX_PENDING
    /\ inGenerationOrder(idsOf(pendingReflections))
    /\ (/\ evoLast.op = "tick"
        /\ evoLast.outcome \in {"generated", "dispatch failed"}
        /\ Len(evoLast.before.pendingBefore) = MAX_PENDING) =>
           /\ pendingReflections =
                  Append(Tail(evoLast.before.pendingBefore), evoLast.reflection)
           /\ evictedLog[Len(evictedLog)] = evoLast.before.pendingBefore[1].id
           /\ \A i \in DOMAIN pendingReflections :
                  pendingReflections[i].id > evoLast.before.pendingBefore[1].id

\* C25 witness: a tick on a full queue
C25_Witness ==
    /\ evoLast.op = "tick"
    /\ evoLast.outcome = "generated"
    /\ Len(evoLast.before.pendingBefore) = MAX_PENDING
    /\ Len(pendingReflections) = MAX_PENDING

\* C27: a fault during a tick does not halt the scheduler. After a tick
\* whose callback threw or whose notification dispatch failed, the engine is
\* running with its timer active, the cycle counter has gone up by one, the
\* reflections queued before are still queued, and the next tick can fire.
C27_TickFaultDoesNotHalt ==
    (evoLast.op = "tick" /\ evoLast.outcome \in {"callback threw", "dispatch failed"}) =>
        /\ cronState.running
        /\ Cardinality(tickTimers) = 1
        /\ cronState.cycleCount = evoLast.before.cycleBefore + 1
        /\ evoLast.outcome = "callback threw" =>
               pendingReflections = evoLast.before.pendingBefore
        /\ evoLast.outcome = "dispatch failed" =>
               pendingReflections =
                   queueAfterTick(evoLast.before.pendingBefore, evoLast.reflection)
        /\ (cronState.cycleCount < MaxCycles /\ totalGenerated < MaxGenerated) =>
               ENABLED TickFires

\* C27 witness: a tick whose callback threw because the vault could not be
\* loaded, fired after an earlier tick
C27_Witness ==
    /\ evoLast.op = "tick"
    /\ evoLast.outcome = "callback threw"
    /\ evoLast.before.cycleBefore >= 1
    /\ tickCallback = "handleTick"
    /\ cronState.running

\* C28: at most one tick timer and at most one silence-monitor timer are
\* active, the running flag is true exactly when a tick timer is active, and
\* start while running or stop while stopped changes nothing.
C28_StartStopIdempotent ==
    /\ Cardinality(tickTimers) <= 1
    /\ Cardinality(monitorTimers) <= 1
    /\ cronState.running <=> tickTimers # {}
    /\ \A t \in tickTimers : t.id = cronState.intervalHandle
    /\ \A t \in monitorTimers : t.id = silenceCheckHandle
    /\ (evoLast.op = "start" /\ evoLast.stateBefore.running) =>
           cronState = evoLast.stateBefore /\ timers = evoLast.timersBefore
    /\ (evoLast.op = "stop" /\ ~evoLast.stateBefore.running) =>
           cronState = evoLast.stateBefore /\ timers = evoLast.timersBefore

\* C28 witness: start called while the engine runs under a live monitor
C28_Witness ==
    /\ evoLast.op = "start"
    /\ evoLast.stateBefore.running
    /\ monitorTimers # {}
    /\ cronState.cycleCount > 0

\* C29: shutdownEvolution cancels the tick timer and the silence-monitor
\* timer and changes nothing else: after it no tick and no monitor poll can
\* fire, and the pending queue, totalGenerated, lastHostContact and the
\* cycle counter are as before. With no timer active, none fires, whatever
\* was called last.
C29_ShutdownFrame ==
    /\ evoLast.op = "shutdownEvolution" =>
           /\ timers = {}
           /\ ~cronState.running
           /\ cronState.intervalHandle = NullHandle
           /\ silenceCheckHandle = NullHandle
           /\ pendingReflections = evoLast.pendingBefore
           /\ totalGenerated = evoLast.totalBefore
           /\ lastHostContact = evoLast.contactBefore
           /\ cronState.cycleCount = evoLast.cycleBefore
    /\ timers = {} => (~ENABLED TickFires /\ ~ENABLED SilenceMonitor)

\* C29 witness: a shutdown of a running, monitored engine with reflections
\* queued and ticks counted
C29_Witness ==
    /\ evoLast.op = "shutdownEvolution"
    /\ evoLast.wasRunning
    /\ evoLast.monitored
    /\ pendingReflections # <<>>
    /\ cronState.cycleCount > 0

\* ------------------------------------------- claims: shadow reflections
\* the rules of the trigger, each with the negation of the ones before it
expectedTrigger(silenceMs, cycleCount, stats) ==
    LET prolonged == silenceMs > 4 * HOUR
        reindex == cycleCount % 4 = 0 /\ stats.totalInteractions > 0
        pattern == cycleCount % 3 = 0 /\ stats.dominantEmotion # NullEmotion
        drift == stats.totalInteractions > 0
    IN  CASE prolonged -> "PROLONGED_SILENCE"
          [] ~prolonged /\ reindex -> "VAULT_REINDEX"
          [] ~prolonged /\ ~reindex /\ pattern -> "EMOTIONAL_PATTERN"
          [] ~prolonged /\ ~reindex /\ ~pattern /\ drift -> "ENTROPY_DRIFT"
          [] OTHER -> "SCHEDULED_TICK"

\* the number of templates a trigger chooses from
templatesOf(trigger) ==
    CASE trigger = "PROLONGED_SILENCE" -> 5
      [] trigger = "VAULT_REINDEX" -> 3
      [] trigger = "EMOTIONAL_PATTERN" -> 2
      [] trigger = "ENTROPY_DRIFT" -> 3
      [] trigger = "SCHEDULED_TICK" -> 1

C30_Claimed_CipherRoundTrip ==
    (/\ cipherResult # <<>>
     /\ cipherResult[1].op = "decrypt"
     /\ cipherResult[1].key = cipherEnvelope[1].key
     /\ cipherEnvelope[1].envelope = cipherEnvelope[1].original) =>
        /\ ~cipherResult[1].returned.threw
        /\ cipherResult[1].returned.plaintext = cipherPlaintext

\* the envelope handed to decrypt differs from the one encrypt returned in
\* its ciphertext, its authTag or its algorithm tag
envelopeChanged ==
    /\ cipherEnvelope # <<>>
    /\ cipherEnvelope[1].envelope # cipherEnvelope[1].original

\* C31 as claimed: for an envelope produced by encrypt, changing its
\* ciphertext, its authTag or its algorithm tag makes decrypt raise an error
\* and return no plaintext, and verifyIntegrity returns false without
\* raising.
C31_Claimed_DecryptFailsClosed ==
    (cipherResult # <<>> /\ envelopeChanged) =>
        /\ cipherResult[1].op = "decrypt" => cipherResult[1].returned.threw
        /\ cipherResult[1].op = "verifyIntegrity" =>
               /\ ~cipherResult[1].returned.threw
               /\ cipherResult[1].returned.value = FALSE

\* C32 as claimed: across any sequence of encrypt calls under the same key,
\* no two produced envelopes carry the same iv, even for identical
\* plaintext.
C32_Claimed_IvNeverRepeats ==
    \A i, j \in 1..Len(cipherIssued) :
        (i # j /\ cipherIssued[i].key = cipherIssued[j].key) =>
            cipherIssued[i].envelope.iv # cipherIssued[j].envelope.iv

\* C32 amended: every encrypt call draws its iv anew from randomBytes: the
\* iv of each produced envelope is the bytes randomBytes returned in that
\* very call, so two envelopes carry the same iv only when two draws of the
\* random source coincide.
C32_IvIsTheFreshDraw ==
    /\ \A i \in 1..Len(cipherIssued) :
           fromHex(cipherIssued[i].envelope.iv) = cipherIssued[i].randomBytes
    /\ \A i, j \in 1..Len(cipherIssued) :
           cipherIssued[i].envelope.iv = cipherIssued[j].envelope.iv =>
               cipherIssued[i].randomBytes = cipherIssued[j].randomBytes

\* two envelopes of the same plaintext under the same key, from two draws
\* that differ
C32_Witness ==
    /\ Len(cipherIssued) = 2
    /\ cipherIssued[1].key = cipherIssued[2].key
    /\ cipherIssued[1].randomBytes # cipherIssued[2].randomBytes
    /\ cipherIssued[1].envelope.iv # cipherIssued[2].envelope.iv

\* ---------------------------------------------- claims: identity state
\* C33: in every reachable identity state, mode is SOVEREIGN exactly when an
\* active key-pair is held; when SOVEREIGN the state's fingerprint is the
\* active key-pair's and initialized is true; when RESTRICTED the active
\* key-pair is absent, fingerprint is null and initialized is false.
C33_ModeMatchesKeypair ==
    /\ (identityState.mode = "SOVEREIGN") <=> (activeKeypair # <<>>)
    /\ identityState.mode \in {"SOVEREIGN", "RESTRICTED"}
    /\ identityState.mode = "SOVEREIGN" =>
           /\ identityState.fingerprint = <<activeKeypair[1].fingerprint>>
           /\ identityState.initialized
    /\ identityState.mode = "RESTRICTED" =>
           /\ activeKeypair = <<>>
           /\ identityState.fingerprint = <<>>
           /\ ~identityState.initialized

\* initializeIdentity assigned the key-pair of the file, the activation
\* threw, and the catch left RESTRICTED mode with no key-pair
C33_Witness ==
    /\ last.op = "initializeIdentity"
    /\ identityFile # <<>>
    /\ ~isCorruptIdentityFile(identityFile[1])
    /\ activationThrows(identityFile[1])
    /\ identityState.mode = "RESTRICTED"
    /\ identityState.verificationFailures > 0
    /\ activeKeypair = <<>>

\* ------------------------------------------- claims: handshake, signer
\* C34 as claimed: when verifyNarrativeEnvelope is called with an expected
\* fingerprint F and returns valid=true, the fingerprint computed from the
\* envelope's signerPublicKey is F; an envelope signed with another
\* key-pair that carries F in its fingerprint field is rejected.
C34_Claimed_SignerBinding ==
    (last.op = "verify" /\ last.expected # <<>> /\ last.result.valid) =>
        computeFingerprint(last.envelope.signerPublicKey) = last.expected[1]

\* C35 as claimed: once an envelope has been accepted, no later envelope
\* carrying the same content and signature is accepted, whatever its nonce
\* field holds, as long as the watermark has not been reset.
C35_Claimed_SignedMessageAcceptedOnce ==
    (last.op = "verify" /\ last.result.valid) => ~last.replayed

\* the envelopes createRestrictedEnvelope builds
RestrictedEnvelopes == {createRestrictedEnvelope(c) : c \in Contents}

\* C36: a restricted envelope is never accepted: for every envelope built by
\* createRestrictedEnvelope and every watermark value,
\* verifyNarrativeEnvelope returns valid=false and leaves the watermark as
\* it was.
C36_RestrictedEnvelopeRejected ==
    (last.op = "verify" /\ last.envelope \in RestrictedEnvelopes) =>
        /\ ~last.result.valid
        /\ lastVerifiedNonce = last.before

\* a restricted envelope that passed the fingerprint test and, the watermark
\* being NaN, the replay test, and was rejected by the signature check
C36_Witness ==
    /\ last.op = "verify"
    /\ last.envelope \in RestrictedEnvelopes
    /\ last.expected = <<RestrictedFp>>
    /\ last.before = NaN
    /\ last.result.reason = "INCOMPLETE_ENVELOPE"

\* ---------------------------------------------------- claims: scheduler
\* C37: no reflection is generated while the host is active: after a
\* recordHostActivity at time t, the Tick Engine is not running and no
\* reflection is added to the pending queue before t + silenceThresholdMs,
\* under any interleaving of monitor polls and tick timers.
C37_NoReflectionWhileHostActive ==
    /\ now - lastHostContact < config.silenceThresholdMs =>
           /\ ~cronState.running
           /\ tickTimers = {}
    /\ evoLast.op = "tick" =>
           now - lastHostContact >= config.silenceThresholdMs
    /\ \A i \in DOMAIN pendingReflections :
           pendingReflections[i].vaultSnapshot.silenceDurationMs
               >= config.silenceThresholdMs

\* the host returned at the threshold instant to an engine that had
\* generated a reflection, and the monitor has polled since
C37_Witness ==
    /\ evoLast.op = "silenceMonitor"
    /\ lastHostContact = HALF_HOUR
    /\ now = HALF_HOUR
    /\ totalGenerated > 0
    /\ ~cronState.running

\* the first drain of the process, made with the host's last contact later
\* than the generation of reflection r
firstDrainAfterContact ==
    /\ evoLast.op = "drainPendingReflections"
    /\ Len(deliveredLog) = Len(evoLast.returned)
generatedBeforeContact(r) == r.timestamp <= lastHostContact

schedulerArmed(n) ==
    /\ monitorTimers # {}
    /\ tickCallback = "handleTick"
    /\ totalGenerated = n
    /\ cronState.cycleCount < MaxCycles
    /\ lastHostContact + config.silenceThresholdMs <= LastInstant
\* the host made contact, or the engine was shut down
schedulerDisarmed ==
    \/ evoLast.op \in {"recordHostActivity", "shutdownEvolution"}
    \/ monitorTimers = {}

\* the tick callback threw on the last tick
tickThrew == evoLast.op = "tick" /\ evoLast.outcome = "callback threw"

deliveredEvents == {i \in DOMAIN eventLog : eventLog[i].delivered}

\* C39 as claimed: any two notifications that were dispatched successfully
\* lie at least cooldownMs apart, also when one evaluateAndNotify started
\* while the dispatch of another was pending; and every dispatched
\* notification was evaluated with notifications enabled, a priority of at
\* least minPriority and a silence of at least minSilenceMs.
C39_Claimed_CooldownRateLimits ==
    /\ \A i, j \in deliveredEvents :
           i < j => eventLog[j].settledAt - eventLog[i].settledAt
                        >= awakeningConfig.cooldownMs
    /\ \A i \in deliveredEvents :
           /\ eventLog[i].enabledAtEvaluation
           /\ priorityIndex(eventLog[i].priority)
                  >= priorityIndex(awakeningConfig.minPriority)
           /\ eventLog[i].silenceDurationMs >= awakeningConfig.minSilenceMs

\* ============================================ claims: identity persistence
\* C40 as claimed: whenever a call of initializeIdentity has left the
\* identity SOVEREIGN, the identity file on disk can be loaded and holds the
\* active key-pair, so that the next start finds that key-pair and generates
\* no other.
C40_Claimed_SovereignIdentityIsOnDisk ==
    (last.op = "initializeIdentity" /\ identityState.mode = "SOVEREIGN") =>
        /\ loadIdentityFile(identityFile) # <<>>
        /\ loadIdentityFile(identityFile)[1].keypair = activeKeypair[1]
====
